---- MODULE Spec2Model ----
(***************************************************************************)
(* Model of the memory_interface core of AgenC: the StatusTracker finite   *)
(* state machine, the MemoryStats ledger, the pool strategy and the        *)
(* DefaultStrategy.  Every shared-memory access of the C code that can     *)
(* race with another thread is one step of a thread; thread-local          *)
(* computation is folded into the step that follows it.                    *)
(***************************************************************************)
EXTENDS Integers, Sequences, FiniteSets, TLC

(***************************************************************************)
(* Bounds of the model.                                                    *)
(***************************************************************************)
NumStatusThreads == 2
MaxStatusCalls == 3
\* The largest value of a StatusTracker counter.  TLC's integers have 32 bits,
\* so the model scales UINT64_MAX down; the overflow guard compares against it.
UINT64_MAX == 2

NumStatsThreads == 2
MaxStatsCalls == 4
NumPtrs == 2
\* Pointers malloc hands out beyond the tracking capacity (the test uses 10).
NumExtraPtrs == 3
\* The tracking table and the history ring, scaled down from 1000 and 100.
STATS_MAX_TRACKED_ALLOCATIONS == 2
STATS_PATTERN_HISTORY_SIZE == 2
\* The leak entries of a report, scaled down from 100.
STATS_MAX_LEAK_REPORTS == 1
\* The retry budgets of the ledger's compare-and-swap loops, scaled down from
\* 5 (MAX_COUNTER_RETRIES) and 10 (MAX_RETRY_ATTEMPTS) so that the threads of
\* the model can exhaust them.
MAX_COUNTER_RETRIES == 2
MAX_RETRY_ATTEMPTS == 2
\* size_t / uint64_t and uint32_t arithmetic of the ledger wraps at these
\* (scaled down from 2^64 and 2^32).
SizeModulus == 4096
CountModulus == 1024

NumPoolThreads == 2
MaxPoolCalls == 4
\* The arena: BitmapWords bitmap words of BLOCKS_PER_BITMAP blocks each, scaled
\* down from 16 words of 64 blocks (POOL_BLOCK_COUNT = 1024).
BitmapWords == 2
BLOCKS_PER_BITMAP == 2

NumDefaultThreads == 2
MaxDefaultCalls == 4

NumBaseThreads == 2
MaxBaseCalls == 5

\* The calls of the runs that set a tracker up with initialize_status.
MaxInitializeCalls == 3

\* The calls of the runs of one client that fragments the pool.
MaxFragmentCalls == 8

\* The threads and calls of the runs on the connection tracker.
NumSolanaThreads == 2
MaxSolanaCalls == 3
MaxCommCalls == 2

\* The threads and calls of the runs in which every call has to return.
NumLiveThreads == 2
MaxLiveCalls == 2
MaxLiveStatsCalls == 4
MaxDrainCalls == 4

\* The threads of test_thread_safety (NUM_THREADS) and the calls they make.
NumThrottleThreads == 4
MaxThrottleCalls == 4

(***************************************************************************)
(* Program constants.                                                      *)
(***************************************************************************)
STRATEGY_MAX_RETRIES == 3
STRATEGY_STATE_INITIALIZED == 0
STRATEGY_STATE_ACTIVE == 1
STRATEGY_STATE_ERROR == 2
STRATEGY_STATE_TRANSITIONING == 3
STRATEGY_MAX_STATE == STRATEGY_STATE_TRANSITIONING

STRATEGY_SUCCESS == "STRATEGY_SUCCESS"
STRATEGY_NULL_POINTER == "STRATEGY_NULL_POINTER"
STRATEGY_INVALID_STATE == "STRATEGY_INVALID_STATE"
STRATEGY_OVERFLOW == "STRATEGY_OVERFLOW"
STRATEGY_ATOMIC_FAILURE == "STRATEGY_ATOMIC_FAILURE"
NoResult == "none"

\* The enum values a caller can pass; STRATEGY_MAX_STATE + 1 stands for every
\* value outside the four states.
StatusInputs == 0 .. (STRATEGY_MAX_STATE + 1)

VALID_TRANSITIONS ==
  << <<0, 1, 1, 1>>,
     <<0, 0, 1, 1>>,
     <<1, 1, 0, 1>>,
     <<1, 1, 1, 0>> >>

STATS_SIZE_BUCKET_COUNT == 8
\* size_thresholds; the last bucket (SIZE_MAX) takes every size.
size_thresholds == <<32, 64, 128, 256, 512, 1024, 4096>>

NULL == 0
Ptrs == 1 .. NumPtrs
ExtraPtrs == (NumPtrs + 1) .. (NumPtrs + NumExtraPtrs)
\* Sizes the clients allocate: two different buckets.
AllocSizes == {16, 48}
SlotIds == 0 .. (STATS_MAX_TRACKED_ALLOCATIONS - 1)

Max(a, b) == IF a >= b THEN a ELSE b
Min(a, b) == IF a <= b THEN a ELSE b
StatusThreads == 1 .. NumStatusThreads
StatsThreads == 1 .. NumStatsThreads
PoolThreads == 1 .. NumPoolThreads
DefaultThreads == 1 .. NumDefaultThreads
BaseThreads == 1 .. NumBaseThreads
ThrottleThreads == 1 .. NumThrottleThreads
LiveThreads == 1 .. NumLiveThreads
SolanaThreads == 1 .. NumSolanaThreads
Threads ==
  1 .. Max(Max(Max(NumStatusThreads, NumStatsThreads),
               Max(NumPoolThreads, NumDefaultThreads)),
           Max(Max(NumBaseThreads, NumThrottleThreads),
              Max(NumLiveThreads, NumSolanaThreads)))

VARIABLES
  pc,                 \* position of each thread
  ret,                \* return labels of each thread (innermost first)
  tl,                 \* locals of each thread inside transition_status
  sl,                 \* locals of each thread inside the MemoryStats routines
  calls,              \* number of operations started (bounded)
  heap,               \* pointers malloc has handed out and free has not taken back
  own,                \* per thread: pointers it holds and will deallocate
  hist,               \* what has been done so far (for the properties)
  current_status,     \* StatusTracker.current_status
  transition_count,   \* StatusTracker.transition_count
  error_count,        \* StatusTracker.error_count
  alloc_count,        \* memory_stats_t
  free_count,
  current_bytes,
  peak_bytes,
  size_distribution,
  active_allocations, \* the slots: address, size, valid, in_use
  active_allocation_count,
  total_leaked_bytes,
  recent_allocations,
  allocation_history_index,
  pl,                 \* locals of each thread inside pool_allocate / pool_deallocate
  held,               \* per thread: the pool allocations it holds
  block_bitmap,       \* MemoryPool.block_bitmap: per word, the set of bits set
  pool_memory,        \* per block: the size_t word at the start of the block
  block_data,         \* per block: who wrote the rest of the block (0: scrubbed)
  blocks_used,        \* PoolMetrics
  total_allocations,
  failed_allocations,
  concurrent_ops,
  dl,                 \* locals of each thread inside the DefaultStrategy routines
  total_allocated,    \* DefaultStrategy
  total_freed,
  peak_usage,
  usage_count,
  destroying,         \* destroy_default_strategy has been called
  released,           \* the strategy's memory has been freed
  leak_reported,      \* check_and_report_leaks has printed a report
  invalid_free,       \* free () was called on a pointer the backend does not hold
  use_after_release,  \* an operation ran on after the strategy was freed
  strategy,           \* the MemoryStrategy of memory_strategy.c: which slots are set
  bl,                 \* locals of each thread inside the validators and that strategy
  solana_tracker,     \* SolanaStatusTracker: current_status and the two counters
  sol,                \* locals of each thread inside solana_status_transition
  impl,               \* SolanaCommImpl: blockhash_slot and stats.ws_reconnects
  component           \* the component the threads of a run call into

trackerVars == <<current_status, transition_count, error_count>>
statsVars ==
  <<alloc_count, free_count, current_bytes, peak_bytes, size_distribution,
    active_allocations, active_allocation_count, total_leaked_bytes,
    recent_allocations, allocation_history_index>>
clientVars == <<heap, own, hist>>
poolMetrics ==
  <<blocks_used, total_allocations, failed_allocations, concurrent_ops>>
poolVars == <<pl, held, block_bitmap, pool_memory, block_data, poolMetrics>>
defaultCounters == <<total_allocated, total_freed, peak_usage, usage_count>>
defaultFlags ==
  <<destroying, released, leak_reported, invalid_free, use_after_release>>
defaultVars == <<dl, defaultCounters, defaultFlags>>
baseVars == <<strategy, bl>>
solanaVars == <<solana_tracker, sol, impl>>
moreVars == <<baseVars, solanaVars, component>>
vars ==
  <<pc, ret, tl, sl, calls, clientVars, trackerVars, statsVars, poolVars,
    defaultVars, moreVars>>
\* What the StatusTracker steps leave alone.
notTracker ==
  <<sl, clientVars, statsVars, poolVars, defaultVars, moreVars>>
\* What the MemoryStats steps leave alone.
notStats == <<tl, trackerVars, poolVars, defaultVars, moreVars>>
\* What the pool steps leave alone.
notPool ==
  <<tl, sl, heap, own, trackerVars, statsVars, defaultVars, moreVars>>
\* What the steps of default_allocate and default_deallocate leave alone.
notDefault == <<tl, sl, trackerVars, statsVars, poolVars, moreVars>>

TrackerLocals0 ==
  [ new_status |-> 0, cur |-> 0, retry |-> 0, result |-> NoResult,
    counter |-> "none", old_count |-> 0, cretry |-> 0, changed |-> FALSE ]

\* Return from the innermost routine.
Return(t) ==
  /\ pc' = [pc EXCEPT ![t] = Head(ret[t])]
  /\ ret' = [ret EXCEPT ![t] = Tail(ret[t])]

\* transition_status returns r: its locals die, the result and whether the
\* call changed current_status are kept for the caller.
TrackerReturn(t, r) ==
  /\ tl' = [tl EXCEPT ![t] = [TrackerLocals0 EXCEPT
                                !.new_status = tl[t].new_status,
                                !.changed = tl[t].changed,
                                !.result = r]]
  /\ Return(t)

(***************************************************************************)
(* StatusTracker (strategy_status.c).                                      *)
(***************************************************************************)
check_counter_overflow(current_value) ==
  IF current_value >= UINT64_MAX THEN STRATEGY_OVERFLOW ELSE STRATEGY_SUCCESS

\* Mutant: the matrix lookup is skipped for self-transitions.
validate_state_transition_SelfAllowed(current, next) ==
  IF current > STRATEGY_MAX_STATE \/ next > STRATEGY_MAX_STATE
  THEN STRATEGY_INVALID_STATE
  ELSE IF current = next \/ VALID_TRANSITIONS[current + 1][next + 1] = 1
       THEN STRATEGY_SUCCESS
       ELSE STRATEGY_INVALID_STATE

validate_state_transition(current, next) ==
  IF current > STRATEGY_MAX_STATE \/ next > STRATEGY_MAX_STATE
  THEN STRATEGY_INVALID_STATE
  ELSE IF VALID_TRANSITIONS[current + 1][next + 1] = 1
       THEN STRATEGY_SUCCESS
       ELSE STRATEGY_INVALID_STATE

validate_transition_input(trackerIsNull, new_status) ==
  IF trackerIsNull THEN STRATEGY_NULL_POINTER
  ELSE IF new_status > STRATEGY_MAX_STATE THEN STRATEGY_INVALID_STATE
  ELSE STRATEGY_SUCCESS

\* Mutant: a plain store instead of the compare-and-swap.
perform_atomic_operation_Store(status, expected, new_status) ==
  [value |-> new_status, ok |-> TRUE]

\* The compare-and-swap of perform_atomic_operation: the new value of the
\* status and whether the exchange succeeded.
perform_atomic_operation(status, expected, new_status) ==
  IF status = expected
  THEN [value |-> new_status, ok |-> TRUE]
  ELSE [value |-> status, ok |-> FALSE]

\* Enter transition_status with the given return label.
EnterTransition(t, new_status, retLabel) ==
  /\ tl' = [tl EXCEPT ![t].new_status = new_status, ![t].retry = 0,
                      ![t].result = NoResult, ![t].changed = FALSE]
  /\ pc' = [pc EXCEPT ![t] = "ts_load"]
  /\ ret' = [ret EXCEPT ![t] = <<retLabel>> \o ret[t]]

\* transition_status (tracker, new_status) called by a client thread:
\* validate_transition_input, then the transition.
TransitionStatusCall(t) ==
  /\ pc[t] = "idle"
  /\ calls < MaxStatusCalls
  /\ calls' = calls + 1
  /\ \E new_status \in StatusInputs :
       LET r == validate_transition_input(FALSE, new_status) IN
       IF r # STRATEGY_SUCCESS
       THEN /\ tl' = [tl EXCEPT ![t] = [TrackerLocals0 EXCEPT
                                         !.new_status = new_status,
                                         !.result = r]]
            /\ UNCHANGED <<pc, ret>>
       ELSE EnterTransition(t, new_status, "idle")
  /\ UNCHANGED <<trackerVars, notTracker>>

\* transition_status (NULL, new_status).
TransitionStatusNull(t) ==
  /\ pc[t] = "idle"
  /\ calls < MaxStatusCalls
  /\ calls' = calls + 1
  /\ \E new_status \in StatusInputs :
       tl' = [tl EXCEPT ![t] = [TrackerLocals0 EXCEPT
                 !.new_status = new_status,
                 !.result = validate_transition_input(TRUE, new_status)]]
  /\ UNCHANGED <<pc, ret, trackerVars, notTracker>>

\* atomic_transition_status, loop head: load and validate.
TsLoad(t) ==
  /\ pc[t] = "ts_load"
  /\ LET cur == current_status
         r == validate_state_transition(cur, tl[t].new_status) IN
     IF r # STRATEGY_SUCCESS
     THEN TrackerReturn(t, r)
     ELSE /\ tl' = [tl EXCEPT ![t].cur = cur]
          /\ pc' = [pc EXCEPT ![t] = "ts_cas"]
          /\ UNCHANGED ret
  /\ UNCHANGED <<calls, trackerVars, notTracker>>

\* atomic_transition_status: the compare-and-swap against the loaded value.
TsCas(t) ==
  /\ pc[t] = "ts_cas"
  /\ LET x == perform_atomic_operation(current_status, tl[t].cur,
                                       tl[t].new_status) IN
     /\ current_status' = x.value
     /\ IF x.ok
        THEN /\ tl' = [tl EXCEPT ![t].cretry = 0, ![t].changed = TRUE,
                                 ![t].counter = "transition_count"]
             /\ pc' = [pc EXCEPT ![t] = "tc_load"]
             /\ hist' = [hist EXCEPT
                           !.changes = @ + 1,
                           !.errors = IF tl[t].new_status = STRATEGY_STATE_ERROR
                                      THEN @ + 1 ELSE @]
             /\ UNCHANGED ret
        ELSE IF tl[t].retry + 1 < STRATEGY_MAX_RETRIES
        THEN /\ tl' = [tl EXCEPT ![t].retry = tl[t].retry + 1]
             /\ pc' = [pc EXCEPT ![t] = "ts_load"]
             /\ UNCHANGED <<ret, hist>>
        ELSE /\ TrackerReturn(t, STRATEGY_ATOMIC_FAILURE)
             /\ UNCHANGED hist
  /\ UNCHANGED <<calls, transition_count, error_count, sl, heap, own,
                 statsVars, poolVars, defaultVars>>
  /\ UNCHANGED moreVars

CounterValue(name) ==
  IF name = "transition_count" THEN transition_count ELSE error_count

\* atomic_increment_with_check, loop head: load and overflow check.
TcLoad(t) ==
  /\ pc[t] = "tc_load"
  /\ LET old == CounterValue(tl[t].counter)
         r == check_counter_overflow(old) IN
     IF r # STRATEGY_SUCCESS
     THEN TrackerReturn(t, r)
     ELSE /\ tl' = [tl EXCEPT ![t].old_count = old]
          /\ pc' = [pc EXCEPT ![t] = "tc_cas"]
          /\ UNCHANGED ret
  /\ UNCHANGED <<calls, trackerVars, notTracker>>

\* Mutant: the loop of atomic_increment_with_check has no retry bound.
TcCas_RetriesForever(t) ==
  /\ pc[t] = "tc_cas"
  /\ \E success \in IF CounterValue(tl[t].counter) = tl[t].old_count
                    THEN BOOLEAN ELSE {FALSE} :
       IF success
       THEN /\ IF tl[t].counter = "transition_count"
               THEN /\ transition_count' = tl[t].old_count + 1
                    /\ UNCHANGED error_count
               ELSE /\ error_count' = tl[t].old_count + 1
                    /\ UNCHANGED transition_count
            /\ IF tl[t].counter = "transition_count"
                  /\ tl[t].new_status = STRATEGY_STATE_ERROR
               THEN /\ tl' = [tl EXCEPT ![t].cretry = 0, ![t].old_count = 0,
                                        ![t].counter = "error_count"]
                    /\ pc' = [pc EXCEPT ![t] = "tc_load"]
                    /\ UNCHANGED ret
               ELSE TrackerReturn(t, STRATEGY_SUCCESS)
       ELSE /\ UNCHANGED <<transition_count, error_count>>
            /\ pc' = [pc EXCEPT ![t] = "tc_load"]
            /\ UNCHANGED <<tl, ret>>
  /\ UNCHANGED <<calls, current_status, notTracker>>

\* perform_atomic_increment: a weak compare-and-swap, which may fail although
\* the counter still holds the loaded value.
TcCas(t) ==
  /\ pc[t] = "tc_cas"
  /\ \E success \in IF CounterValue(tl[t].counter) = tl[t].old_count
                    THEN BOOLEAN ELSE {FALSE} :
       IF success
       THEN /\ IF tl[t].counter = "transition_count"
               THEN /\ transition_count' = tl[t].old_count + 1
                    /\ UNCHANGED error_count
               ELSE /\ error_count' = tl[t].old_count + 1
                    /\ UNCHANGED transition_count
            /\ IF tl[t].counter = "transition_count"
                  /\ tl[t].new_status = STRATEGY_STATE_ERROR
               THEN /\ tl' = [tl EXCEPT ![t].cretry = 0, ![t].old_count = 0,
                                        ![t].counter = "error_count"]
                    /\ pc' = [pc EXCEPT ![t] = "tc_load"]
                    /\ UNCHANGED ret
               ELSE TrackerReturn(t, STRATEGY_SUCCESS)
       ELSE /\ UNCHANGED <<transition_count, error_count>>
            /\ IF tl[t].cretry + 1 < STRATEGY_MAX_RETRIES
               THEN /\ tl' = [tl EXCEPT ![t].cretry = tl[t].cretry + 1]
                    /\ pc' = [pc EXCEPT ![t] = "tc_load"]
                    /\ UNCHANGED ret
               ELSE TrackerReturn(t, STRATEGY_ATOMIC_FAILURE)
  /\ UNCHANGED <<calls, current_status, notTracker>>

(***************************************************************************)
(* MemoryStats (memory_stats.c).  Timestamps, file and line of a record    *)
(* are not modelled; backoff_delay and sched_yield only pass time.         *)
(***************************************************************************)
\* The stats_report_t of a caller before memory_stats_get_report fills it
\* (the basic counters and the leak entries; the size buckets and the
\* averages derived from them are left out).
EmptyReport ==
  [ alloc_count |-> 0, free_count |-> 0, current_bytes |-> 0,
    peak_bytes |-> 0, active_allocation_count |-> 0,
    total_leaked_bytes |-> 0, leak_count |-> 0, leaks |-> <<>> ]

StatsLocals0 ==
  [ ptr |-> NULL, size |-> 0, attempt |-> 0, cur |-> 0, counter |-> "none",
    i |-> 0, slot |-> -1, report |-> EmptyReport ]

EmptySlot == [address |-> NULL, size |-> 0, valid |-> 0, in_use |-> 0]

Goto(t, label) ==
  /\ pc' = [pc EXCEPT ![t] = label]
  /\ UNCHANGED ret

\* Call a routine that starts at label and continues at cont when it returns.
CallSub(t, label, cont) ==
  /\ pc' = [pc EXCEPT ![t] = label]
  /\ ret' = [ret EXCEPT ![t] = <<cont>> \o ret[t]]

\* update_size_distribution: the first bucket whose threshold holds the size.
BucketOf(size) ==
  IF \E b \in 1 .. Len(size_thresholds) : size <= size_thresholds[b]
  THEN CHOOSE b \in 1 .. Len(size_thresholds) :
         /\ size <= size_thresholds[b]
         /\ \A c \in 1 .. (b - 1) : size > size_thresholds[c]
  ELSE STATS_SIZE_BUCKET_COUNT

StatCounter(name) == IF name = "alloc_count" THEN alloc_count ELSE free_count

SetStatCounter(name, v) ==
  /\ alloc_count' = IF name = "alloc_count" THEN v ELSE alloc_count
  /\ free_count' = IF name = "free_count" THEN v ELSE free_count

statsButCounters ==
  <<current_bytes, peak_bytes, size_distribution, active_allocations,
    active_allocation_count, total_leaked_bytes, recent_allocations,
    allocation_history_index>>
statsButBytes ==
  <<alloc_count, free_count, peak_bytes, size_distribution,
    active_allocations, active_allocation_count, total_leaked_bytes,
    recent_allocations, allocation_history_index>>
statsButSlots ==
  <<alloc_count, free_count, current_bytes, peak_bytes, size_distribution,
    active_allocation_count, total_leaked_bytes, recent_allocations,
    allocation_history_index>>

\* memory_stats_update_allocation (stats, ptr, size): the NULL check, then
\* update_counter_with_retry (&stats->alloc_count, 1, 1).
EnterUpdateAllocation(t, ptr, size, cont) ==
  IF ptr = NULL
  THEN /\ pc' = [pc EXCEPT ![t] = cont]
       /\ UNCHANGED <<ret, sl>>
  ELSE /\ sl' = [sl EXCEPT ![t] = [StatsLocals0 EXCEPT
                   !.ptr = ptr, !.size = size, !.counter = "alloc_count"]]
       /\ pc' = [pc EXCEPT ![t] = "uc_load"]
       /\ ret' = [ret EXCEPT ![t] = <<"ua_bytes_load", cont>> \o ret[t]]

\* update_counter_with_retry: load.
UcLoad(t) ==
  /\ pc[t] = "uc_load"
  /\ sl' = [sl EXCEPT ![t].cur = StatCounter(sl[t].counter)]
  /\ Goto(t, "uc_cas")
  /\ UNCHANGED <<calls, clientVars, statsVars, notStats>>

\* update_counter_with_retry: compare-and-swap; after MAX_COUNTER_RETRIES
\* failures the fallback follows.
UcCas(t) ==
  /\ pc[t] = "uc_cas"
  /\ IF StatCounter(sl[t].counter) = sl[t].cur
     THEN /\ SetStatCounter(sl[t].counter, (sl[t].cur + 1) % SizeModulus)
          /\ sl' = [sl EXCEPT ![t].cur = 0, ![t].attempt = 0,
                              ![t].counter = "none"]
          /\ Return(t)
     ELSE /\ UNCHANGED <<alloc_count, free_count>>
          /\ IF sl[t].attempt + 1 < MAX_COUNTER_RETRIES
             THEN /\ sl' = [sl EXCEPT ![t].attempt = sl[t].attempt + 1,
                                      ![t].cur = 0]
                  /\ Goto(t, "uc_load")
             ELSE /\ sl' = [sl EXCEPT ![t].attempt = 0, ![t].cur = 0]
                  /\ Goto(t, "uc_add")
  /\ UNCHANGED <<calls, clientVars, statsButCounters, notStats>>

\* Mutant: the loop gives up without the fallback.
UcAdd_NoFallback(t) ==
  /\ pc[t] = "uc_add"
  /\ sl' = [sl EXCEPT ![t].counter = "none"]
  /\ Return(t)
  /\ UNCHANGED <<calls, clientVars, statsVars, notStats>>

\* update_counter_with_retry: the fallback atomic_fetch_add.
UcAdd(t) ==
  /\ pc[t] = "uc_add"
  /\ SetStatCounter(sl[t].counter,
                    (StatCounter(sl[t].counter) + 1) % SizeModulus)
  /\ sl' = [sl EXCEPT ![t].counter = "none"]
  /\ Return(t)
  /\ UNCHANGED <<calls, clientVars, statsButCounters, notStats>>

\* The bytes loop of memory_stats_update_allocation: load current_bytes.
UaBytesLoad(t) ==
  /\ pc[t] = "ua_bytes_load"
  /\ sl' = [sl EXCEPT ![t].cur = current_bytes]
  /\ Goto(t, "ua_peak_load")
  /\ UNCHANGED <<calls, clientVars, statsVars, notStats>>

NewCurrent(t) == (sl[t].cur + sl[t].size) % SizeModulus

\* load peak_bytes and compare.
UaPeakLoad(t) ==
  /\ pc[t] = "ua_peak_load"
  /\ IF NewCurrent(t) > peak_bytes
     THEN Goto(t, "ua_peak_store")
     ELSE Goto(t, "ua_bytes_cas")
  /\ UNCHANGED <<sl, calls, clientVars, statsVars, notStats>>

\* atomic_store of peak_bytes.
UaPeakStore(t) ==
  /\ pc[t] = "ua_peak_store"
  /\ peak_bytes' = NewCurrent(t)
  /\ Goto(t, "ua_bytes_cas")
  /\ UNCHANGED <<sl, calls, clientVars, alloc_count, free_count,
                 current_bytes, size_distribution, active_allocations,
                 active_allocation_count, total_leaked_bytes,
                 recent_allocations, allocation_history_index, notStats>>

\* compare-and-swap of current_bytes; the loop ends after MAX_RETRY_ATTEMPTS
\* attempts, whether or not one succeeded.
UaBytesCas(t) ==
  /\ pc[t] = "ua_bytes_cas"
  /\ IF current_bytes = sl[t].cur
     THEN /\ current_bytes' = NewCurrent(t)
          /\ sl' = [sl EXCEPT ![t].cur = 0, ![t].attempt = 0, ![t].i = 0]
          /\ Goto(t, "ua_slot_valid")
     ELSE /\ UNCHANGED current_bytes
          /\ IF sl[t].attempt + 1 < MAX_RETRY_ATTEMPTS
             THEN /\ sl' = [sl EXCEPT ![t].attempt = sl[t].attempt + 1,
                                      ![t].cur = 0]
                  /\ Goto(t, "ua_bytes_load")
             ELSE /\ sl' = [sl EXCEPT ![t].cur = 0, ![t].attempt = 0,
                                      ![t].i = 0]
                  /\ Goto(t, "ua_slot_valid")
  /\ UNCHANGED <<calls, clientVars, statsButBytes, notStats>>

\* find_free_slot moves on from slot i; after the last slot it returns -1 and
\* the caller retries up to MAX_RETRY_ATTEMPTS times.
NextFreeSlot(t) ==
  IF sl[t].i + 1 < STATS_MAX_TRACKED_ALLOCATIONS
  THEN /\ sl' = [sl EXCEPT ![t].i = sl[t].i + 1]
       /\ Goto(t, "ua_slot_valid")
  ELSE IF sl[t].attempt + 1 < MAX_RETRY_ATTEMPTS
  THEN /\ sl' = [sl EXCEPT ![t].i = 0, ![t].attempt = sl[t].attempt + 1]
       /\ Goto(t, "ua_slot_valid")
  ELSE /\ sl' = [sl EXCEPT ![t].i = 0, ![t].attempt = 0]
       /\ Goto(t, "ua_analysis")

\* find_free_slot: load valid of slot i.
UaSlotValid(t) ==
  /\ pc[t] = "ua_slot_valid"
  /\ IF active_allocations[sl[t].i].valid # 0
     THEN NextFreeSlot(t)
     ELSE /\ Goto(t, "ua_slot_cas")
          /\ UNCHANGED sl
  /\ UNCHANGED <<calls, clientVars, statsVars, notStats>>

\* Mutant: the slot is taken whatever in_use holds.
UaSlotCas_Unconditional(t) ==
  /\ pc[t] = "ua_slot_cas"
  /\ active_allocations' =
       [active_allocations EXCEPT ![sl[t].i].in_use = 1]
  /\ sl' = [sl EXCEPT ![t].slot = sl[t].i, ![t].i = 0, ![t].attempt = 0]
  /\ Goto(t, "ua_w_addr")
  /\ UNCHANGED <<calls, clientVars, statsButSlots, notStats>>

\* find_free_slot: compare-and-swap of in_use of slot i.
UaSlotCas(t) ==
  /\ pc[t] = "ua_slot_cas"
  /\ IF active_allocations[sl[t].i].in_use = 0
     THEN /\ active_allocations' =
               [active_allocations EXCEPT ![sl[t].i].in_use = 1]
          /\ sl' = [sl EXCEPT ![t].slot = sl[t].i, ![t].i = 0,
                              ![t].attempt = 0]
          /\ Goto(t, "ua_w_addr")
     ELSE /\ UNCHANGED active_allocations
          /\ NextFreeSlot(t)
  /\ UNCHANGED <<calls, clientVars, statsButSlots, notStats>>

\* The stores into the claimed slot, one step each.
UaWriteAddr(t) ==
  /\ pc[t] = "ua_w_addr"
  /\ active_allocations' =
       [active_allocations EXCEPT ![sl[t].slot].address = sl[t].ptr]
  /\ Goto(t, "ua_w_size")
  /\ UNCHANGED <<sl, calls, clientVars, statsButSlots, notStats>>

UaWriteSize(t) ==
  /\ pc[t] = "ua_w_size"
  /\ active_allocations' =
       [active_allocations EXCEPT ![sl[t].slot].size = sl[t].size]
  /\ Goto(t, "ua_w_valid")
  /\ UNCHANGED <<sl, calls, clientVars, statsButSlots, notStats>>

UaWriteValid(t) ==
  /\ pc[t] = "ua_w_valid"
  /\ active_allocations' =
       [active_allocations EXCEPT ![sl[t].slot].valid = 1]
  /\ Goto(t, "ua_w_count")
  /\ UNCHANGED <<sl, calls, clientVars, statsButSlots, notStats>>

UaIncActive(t) ==
  /\ pc[t] = "ua_w_count"
  /\ active_allocation_count' = (active_allocation_count + 1) % CountModulus
  /\ Goto(t, "ua_w_leaked")
  /\ UNCHANGED <<sl, calls, clientVars, alloc_count, free_count,
                 current_bytes, peak_bytes, size_distribution,
                 active_allocations, total_leaked_bytes, recent_allocations,
                 allocation_history_index, notStats>>

UaAddLeaked(t) ==
  /\ pc[t] = "ua_w_leaked"
  /\ total_leaked_bytes' = (total_leaked_bytes + sl[t].size) % SizeModulus
  /\ Goto(t, "ua_w_release")
  /\ UNCHANGED <<sl, calls, clientVars, alloc_count, free_count,
                 current_bytes, peak_bytes, size_distribution,
                 active_allocations, active_allocation_count,
                 recent_allocations, allocation_history_index, notStats>>

UaRelease(t) ==
  /\ pc[t] = "ua_w_release"
  /\ active_allocations' =
       [active_allocations EXCEPT ![sl[t].slot].in_use = 0]
  /\ sl' = [sl EXCEPT ![t].slot = -1]
  /\ Goto(t, "ua_analysis")
  /\ UNCHANGED <<calls, clientVars, statsButSlots, notStats>>

\* update_size_distribution and the fetch_add of record_allocation (two
\* atomic additions, which commute with every other step).
UaAnalysis(t) ==
  /\ pc[t] = "ua_analysis"
  /\ size_distribution' =
       [size_distribution EXCEPT ![BucketOf(sl[t].size)] = (@ + 1) % SizeModulus]
  /\ allocation_history_index' = (allocation_history_index + 1) % CountModulus
  /\ sl' = [sl EXCEPT ![t].i = allocation_history_index
                                 % STATS_PATTERN_HISTORY_SIZE]
  /\ Goto(t, "ua_history")
  /\ UNCHANGED <<calls, clientVars, alloc_count, free_count, current_bytes,
                 peak_bytes, active_allocations, active_allocation_count,
                 total_leaked_bytes, recent_allocations, notStats>>

\* record_allocation: the store into the history ring; the call returns.
UaHistory(t) ==
  /\ pc[t] = "ua_history"
  /\ recent_allocations' = [recent_allocations EXCEPT ![sl[t].i] = sl[t].size]
  /\ sl' = [sl EXCEPT ![t] = [StatsLocals0 EXCEPT !.ptr = sl[t].ptr]]
  /\ Return(t)
  /\ UNCHANGED <<calls, clientVars, alloc_count, free_count, current_bytes,
                 peak_bytes, size_distribution, active_allocations,
                 active_allocation_count, total_leaked_bytes,
                 allocation_history_index, notStats>>

\* memory_stats_update_deallocation (stats, ptr): the NULL check, then
\* find_and_remove_allocation.
EnterUpdateDeallocation(t, ptr, cont) ==
  IF ptr = NULL
  THEN /\ pc' = [pc EXCEPT ![t] = cont]
       /\ UNCHANGED <<ret, sl>>
  ELSE /\ sl' = [sl EXCEPT ![t] = [StatsLocals0 EXCEPT !.ptr = ptr]]
       /\ CallSub(t, "ud_scan_valid", cont)

\* find_and_remove_allocation moves on from slot i; after the last slot it
\* returns 0 and memory_stats_update_deallocation returns.
NextScanSlot(t) ==
  IF sl[t].i + 1 < STATS_MAX_TRACKED_ALLOCATIONS
  THEN /\ sl' = [sl EXCEPT ![t].i = sl[t].i + 1]
       /\ Goto(t, "ud_scan_valid")
  ELSE /\ sl' = [sl EXCEPT ![t] = [StatsLocals0 EXCEPT !.ptr = sl[t].ptr]]
       /\ Return(t)

\* find_and_remove_allocation: load valid of slot i.
UdScanValid(t) ==
  /\ pc[t] = "ud_scan_valid"
  /\ IF active_allocations[sl[t].i].valid = 0
     THEN NextScanSlot(t)
     ELSE /\ Goto(t, "ud_scan_addr")
          /\ UNCHANGED sl
  /\ UNCHANGED <<calls, clientVars, statsVars, notStats>>

\* find_and_remove_allocation: load address of slot i.
UdScanAddr(t) ==
  /\ pc[t] = "ud_scan_addr"
  /\ IF active_allocations[sl[t].i].address # sl[t].ptr
     THEN NextScanSlot(t)
     ELSE /\ Goto(t, "ud_cas")
          /\ UNCHANGED sl
  /\ UNCHANGED <<calls, clientVars, statsVars, notStats>>

\* find_and_remove_allocation: compare-and-swap of in_use of slot i.
UdCas(t) ==
  /\ pc[t] = "ud_cas"
  /\ IF active_allocations[sl[t].i].in_use = 0
     THEN /\ active_allocations' =
               [active_allocations EXCEPT ![sl[t].i].in_use = 1]
          /\ sl' = [sl EXCEPT ![t].slot = sl[t].i, ![t].i = 0]
          /\ Goto(t, "ud_size")
     ELSE /\ UNCHANGED active_allocations
          /\ NextScanSlot(t)
  /\ UNCHANGED <<calls, clientVars, statsButSlots, notStats>>

\* find_and_remove_allocation: load the recorded size.
UdSize(t) ==
  /\ pc[t] = "ud_size"
  /\ sl' = [sl EXCEPT ![t].size = active_allocations[sl[t].slot].size]
  /\ Goto(t, "ud_clr_valid")
  /\ UNCHANGED <<calls, clientVars, statsVars, notStats>>

UdClearValid(t) ==
  /\ pc[t] = "ud_clr_valid"
  /\ active_allocations' =
       [active_allocations EXCEPT ![sl[t].slot].valid = 0]
  /\ Goto(t, "ud_clr_addr")
  /\ UNCHANGED <<sl, calls, clientVars, statsButSlots, notStats>>

UdClearAddr(t) ==
  /\ pc[t] = "ud_clr_addr"
  /\ active_allocations' =
       [active_allocations EXCEPT ![sl[t].slot].address = NULL]
  /\ Goto(t, "ud_clr_size")
  /\ UNCHANGED <<sl, calls, clientVars, statsButSlots, notStats>>

UdClearSize(t) ==
  /\ pc[t] = "ud_clr_size"
  /\ active_allocations' =
       [active_allocations EXCEPT ![sl[t].slot].size = 0]
  /\ Goto(t, "ud_dec_count")
  /\ UNCHANGED <<sl, calls, clientVars, statsButSlots, notStats>>

UdDecActive(t) ==
  /\ pc[t] = "ud_dec_count"
  /\ active_allocation_count' =
       (active_allocation_count - 1 + CountModulus) % CountModulus
  /\ Goto(t, "ud_sub_leaked")
  /\ UNCHANGED <<sl, calls, clientVars, alloc_count, free_count,
                 current_bytes, peak_bytes, size_distribution,
                 active_allocations, total_leaked_bytes, recent_allocations,
                 allocation_history_index, notStats>>

UdSubLeaked(t) ==
  /\ pc[t] = "ud_sub_leaked"
  /\ total_leaked_bytes' =
       (total_leaked_bytes - sl[t].size + SizeModulus) % SizeModulus
  /\ Goto(t, "ud_release")
  /\ UNCHANGED <<sl, calls, clientVars, alloc_count, free_count,
                 current_bytes, peak_bytes, size_distribution,
                 active_allocations, active_allocation_count,
                 recent_allocations, allocation_history_index, notStats>>

\* find_and_remove_allocation releases the slot and returns the size;
\* memory_stats_update_deallocation returns if it is 0 and otherwise goes on
\* with update_counter_with_retry (&stats->free_count, 1, 1).
UdRelease(t) ==
  /\ pc[t] = "ud_release"
  /\ active_allocations' =
       [active_allocations EXCEPT ![sl[t].slot].in_use = 0]
  /\ IF sl[t].size = 0
     THEN /\ sl' = [sl EXCEPT ![t] = [StatsLocals0 EXCEPT !.ptr = sl[t].ptr]]
          /\ Return(t)
     ELSE /\ sl' = [sl EXCEPT ![t].slot = -1, ![t].counter = "free_count"]
          /\ CallSub(t, "uc_load", "ud_bytes_load")
  /\ UNCHANGED <<calls, clientVars, statsButSlots, notStats>>

\* The bytes loop of memory_stats_update_deallocation: load current_bytes.
UdBytesLoad(t) ==
  /\ pc[t] = "ud_bytes_load"
  /\ IF current_bytes < sl[t].size
     THEN /\ sl' = [sl EXCEPT ![t] = [StatsLocals0 EXCEPT !.ptr = sl[t].ptr]]
          /\ Return(t)
     ELSE /\ sl' = [sl EXCEPT ![t].cur = current_bytes]
          /\ Goto(t, "ud_bytes_cas")
  /\ UNCHANGED <<calls, clientVars, statsVars, notStats>>

\* compare-and-swap of current_bytes; the loop ends after MAX_RETRY_ATTEMPTS
\* attempts, whether or not one succeeded.
UdBytesCas(t) ==
  /\ pc[t] = "ud_bytes_cas"
  /\ IF current_bytes = sl[t].cur
     THEN /\ current_bytes' = sl[t].cur - sl[t].size
          /\ sl' = [sl EXCEPT ![t] = [StatsLocals0 EXCEPT !.ptr = sl[t].ptr]]
          /\ Return(t)
     ELSE /\ UNCHANGED current_bytes
          /\ IF sl[t].attempt + 1 < MAX_RETRY_ATTEMPTS
             THEN /\ sl' = [sl EXCEPT ![t].attempt = sl[t].attempt + 1,
                                      ![t].cur = 0]
                  /\ Goto(t, "ud_bytes_load")
             ELSE /\ sl' = [sl EXCEPT ![t] =
                              [StatsLocals0 EXCEPT !.ptr = sl[t].ptr]]
                  /\ Return(t)
  /\ UNCHANGED <<calls, clientVars, statsButBytes, notStats>>

\* The steps of the MemoryStats routines of thread t.
StatsStep(t) ==
  \/ UcLoad(t) \/ UcCas(t) \/ UcAdd(t)
  \/ UaBytesLoad(t) \/ UaPeakLoad(t) \/ UaPeakStore(t) \/ UaBytesCas(t)
  \/ UaSlotValid(t) \/ UaSlotCas(t)
  \/ UaWriteAddr(t) \/ UaWriteSize(t) \/ UaWriteValid(t)
  \/ UaIncActive(t) \/ UaAddLeaked(t) \/ UaRelease(t)
  \/ UaAnalysis(t) \/ UaHistory(t)
  \/ UdScanValid(t) \/ UdScanAddr(t) \/ UdCas(t) \/ UdSize(t)
  \/ UdClearValid(t) \/ UdClearAddr(t) \/ UdClearSize(t)
  \/ UdDecActive(t) \/ UdSubLeaked(t) \/ UdRelease(t)
  \/ UdBytesLoad(t) \/ UdBytesCas(t)

(***************************************************************************)
(* Clients of the ledger (the threads of test_thread_safety): malloc, then *)
(* memory_stats_update_allocation; memory_stats_update_deallocation, then  *)
(* free.                                                                   *)
(***************************************************************************)
StatsAllocCall(t) ==
  /\ pc[t] = "idle"
  /\ calls < MaxStatsCalls
  /\ calls' = calls + 1
  /\ \E p \in Ptrs \ heap, size \in AllocSizes :
       /\ heap' = heap \cup {p}
       /\ own' = [own EXCEPT ![t] = @ \cup {p}]
       /\ hist' = [hist EXCEPT !.allocs = @ + 1]
       /\ EnterUpdateAllocation(t, p, size, "idle")
  /\ UNCHANGED <<statsVars, notStats>>

\* memory_stats_update_deallocation of a pointer the thread holds.
StatsDeallocCall(t) ==
  /\ pc[t] = "idle"
  /\ calls < MaxStatsCalls
  /\ calls' = calls + 1
  /\ \E p \in own[t] : EnterUpdateDeallocation(t, p, "sd_free")
  /\ UNCHANGED <<clientVars, statsVars, notStats>>

\* free (ptr) after the ledger update.
StatsFree(t) ==
  /\ pc[t] = "sd_free"
  /\ heap' = heap \ {sl[t].ptr}
  /\ own' = [own EXCEPT ![t] = @ \ {sl[t].ptr}]
  /\ sl' = [sl EXCEPT ![t] = StatsLocals0]
  /\ Goto(t, "idle")
  /\ UNCHANGED <<calls, hist, statsVars, notStats>>

AllSlotsValid == \A i \in SlotIds : active_allocations[i].valid = 1

\* memory_stats_update_allocation of one more pointer while every slot is
\* valid (test_leak_detection_edges allocates beyond the tracking capacity);
\* malloc hands out the lowest free address.
StatsAllocFullCall(t) ==
  /\ pc[t] = "idle"
  /\ calls < MaxStatsCalls
  /\ calls' = calls + 1
  /\ AllSlotsValid
  /\ ExtraPtrs \ heap # {}
  /\ LET p == CHOOSE q \in ExtraPtrs \ heap :
                \A r \in ExtraPtrs \ heap : q <= r IN
     \E size \in AllocSizes :
       /\ heap' = heap \cup {p}
       /\ own' = [own EXCEPT ![t] = @ \cup {p}]
       /\ hist' = [hist EXCEPT !.allocs = @ + 1]
       /\ EnterUpdateAllocation(t, p, size, "idle")
  /\ UNCHANGED <<statsVars, notStats>>

\* memory_stats_get_report: the loads of the counters, leak_count as the
\* capped active_allocation_count, and the copy of the first leak_count
\* slots.
memory_stats_get_report ==
  LET count == active_allocation_count
      leak_count == IF count > STATS_MAX_LEAK_REPORTS
                    THEN STATS_MAX_LEAK_REPORTS ELSE count
  IN [ alloc_count |-> alloc_count, free_count |-> free_count,
       current_bytes |-> current_bytes, peak_bytes |-> peak_bytes,
       active_allocation_count |-> active_allocation_count,
       total_leaked_bytes |-> total_leaked_bytes,
       leak_count |-> leak_count,
       leaks |-> [k \in 1 .. leak_count |->
                   [address |-> active_allocations[k - 1].address,
                    size |-> active_allocations[k - 1].size]] ]

\* memory_stats_get_report (stats, &report) called by a client thread.
StatsGetReport(t) ==
  /\ pc[t] = "idle"
  /\ calls < MaxStatsCalls
  /\ calls' = calls + 1
  /\ sl' = [sl EXCEPT ![t] = [StatsLocals0 EXCEPT
                               !.report = memory_stats_get_report]]
  /\ UNCHANGED <<pc, ret, clientVars, statsVars, notStats>>

\* memory_stats_update_deallocation of a pointer no thread holds (already
\* freed or never allocated), or of NULL.
StatsDeallocUntracked(t) ==
  /\ pc[t] = "idle"
  /\ calls < MaxStatsCalls
  /\ calls' = calls + 1
  /\ \E p \in (Ptrs \ heap) \cup {NULL} :
       /\ hist' = [hist EXCEPT !.foreign = TRUE]
       /\ EnterUpdateDeallocation(t, p, "idle")
  /\ UNCHANGED <<heap, own, statsVars, notStats>>

(***************************************************************************)
(* The pool strategy (memory_pool_strategy.c).  The bitmap is an array of  *)
(* plain uint64_t words: a read of a bit is one load of its word, and      *)
(* `bitmap[w] |= bit' / `bitmap[w] &= ~bit' is a load of the word followed *)
(* by a store of the whole word.  secure_clear_memory is one step per      *)
(* block.                                                                  *)
(***************************************************************************)
POOL_BLOCK_SIZE == 256
POOL_METADATA_SIZE == 8
MAX_ALLOCATION_RETRIES == 3
POOL_BLOCK_COUNT == BitmapWords * BLOCKS_PER_BITMAP
SIZE_MAX == SizeModulus - 1
UINT32_MAX == CountModulus - 1
\* sizeof (void *), the pointer alignment validate_pointer asks for.
PointerSize == 8

Blocks == 0 .. (POOL_BLOCK_COUNT - 1)
\* The address aligned_alloc returned for the arena.
PoolBase == POOL_BLOCK_SIZE
\* The pointer pool_allocate returns for a run that starts at block b.
UserPtr(b) == PoolBase + b * POOL_BLOCK_SIZE + POOL_METADATA_SIZE
Run(start, num) == start .. (start + num - 1)

\* The largest size blocks_needed accepts: every block, less the header.
PoolCapacity == POOL_BLOCK_COUNT * POOL_BLOCK_SIZE - POOL_METADATA_SIZE
\* Sizes the clients ask for: rejected, one block, two blocks, the whole
\* arena, one byte more than the arena holds, and SIZE_MAX.
PoolSizes == {0, 64, 249, PoolCapacity, PoolCapacity + 1, SIZE_MAX}
\* Pointers the clients pass to deallocate besides the ones they hold: NULL,
\* the user pointer of every block, a misaligned pointer, the arena's base
\* (its header would lie below the arena) and a pointer past the arena.
PoolPtrInputs ==
  {NULL, UserPtr(0) + 1, PoolBase, UserPtr(POOL_BLOCK_COUNT)}
    \cup {UserPtr(b) : b \in Blocks}
\* What a client stores into the first word of a block of its payload.
UserWords == {1}

NoAlloc == [id |-> 0, start |-> 0, num |-> 0]

PoolLocals0 ==
  [ size |-> 0, ptr |-> NULL, start |-> 0, num |-> 0, i |-> 0,
    consecutive |-> 0, k |-> 0, word |-> {}, used |-> FALSE,
    result |-> NULL,
    \* For the properties: the allocation a deallocate call was issued for
    \* (NoAlloc if none), whether it was issued for a pointer that no
    \* allocation starts at, the bits the call cleared and what it
    \* subtracted from blocks_used.
    owned |-> NoAlloc, foreign |-> FALSE, cleared |-> {}, sub |-> 0,
    \* For the properties: the call has passed the throttle on concurrent_ops.
    admitted |-> FALSE ]

validate_state(status) == status = STRATEGY_STATE_ACTIVE
validate_size(size) == size > 0 /\ size <= SIZE_MAX \div 2
validate_pointer(ptr) == ptr # NULL /\ ptr % PointerSize = 0
validate_allocation(status, size) ==
  validate_state(status) /\ validate_size(size)
validate_deallocation(status, ptr) ==
  validate_state(status) /\ validate_pointer(ptr)

blocks_needed(size) ==
  IF size > SIZE_MAX - POOL_METADATA_SIZE THEN 0
  ELSE LET total_size == size + POOL_METADATA_SIZE IN
       IF total_size > SIZE_MAX - (POOL_BLOCK_SIZE - 1) THEN 0
       ELSE LET blocks == (total_size + POOL_BLOCK_SIZE - 1)
                            \div POOL_BLOCK_SIZE IN
            IF blocks = 0 \/ blocks > POOL_BLOCK_COUNT THEN 0 ELSE blocks

is_ptr_in_pool_range(ptr_addr, start_addr, pool_size) ==
  IF pool_size > SIZE_MAX - start_addr THEN FALSE
  ELSE LET end_addr == start_addr + pool_size IN
       ~(end_addr <= start_addr \/ ptr_addr < start_addr
         \/ ptr_addr >= end_addr)

WordIdx(block) == block \div BLOCKS_PER_BITMAP
BitIdx(block) == block % BLOCKS_PER_BITMAP

is_block_used(bitmap, block) ==
  IF block >= POOL_BLOCK_COUNT THEN FALSE
  ELSE BitIdx(block) \in bitmap[WordIdx(block)]

\* The guard of mark_blocks.
MarkGuard(start_block, num_blocks) ==
  ~( start_block >= POOL_BLOCK_COUNT \/ num_blocks = 0
     \/ num_blocks > POOL_BLOCK_COUNT
     \/ start_block + num_blocks > POOL_BLOCK_COUNT )

\* mark_blocks (bitmap, pl[t].start, pl[t].num, used), continuing at cont.
CallMark(t, used, cont) ==
  IF MarkGuard(pl[t].start, pl[t].num)
  THEN /\ pl' = [pl EXCEPT ![t].k = 0, ![t].used = used, ![t].i = 0,
                           ![t].consecutive = 0]
       /\ CallSub(t, "mb_load", cont)
  ELSE /\ pl' = [pl EXCEPT ![t].i = 0, ![t].consecutive = 0]
       /\ Goto(t, cont)

\* mark_blocks: load the word of block start + k.
MbLoad(t) ==
  /\ pc[t] = "mb_load"
  /\ pl' = [pl EXCEPT ![t].word =
              block_bitmap[WordIdx(pl[t].start + pl[t].k)]]
  /\ Goto(t, "mb_store")
  /\ UNCHANGED <<calls, hist, held, block_bitmap, pool_memory, block_data,
                 poolMetrics, notPool>>

\* mark_blocks: store the word with the bit set or cleared.
MbStore(t) ==
  /\ pc[t] = "mb_store"
  /\ LET block == pl[t].start + pl[t].k
         bit == BitIdx(block)
         last == pl[t].k + 1 >= pl[t].num IN
     /\ block_bitmap' =
          [block_bitmap EXCEPT ![WordIdx(block)] =
             IF pl[t].used THEN pl[t].word \cup {bit}
             ELSE pl[t].word \ {bit}]
     /\ pl' = [pl EXCEPT
                 ![t].word = {},
                 ![t].k = IF last THEN 0 ELSE pl[t].k + 1,
                 ![t].cleared = IF pl[t].used THEN @ ELSE @ \cup {block}]
     /\ IF last THEN Return(t) ELSE Goto(t, "mb_load")
  /\ UNCHANGED <<calls, hist, held, pool_memory, block_data, poolMetrics,
                 notPool>>

\* pool_allocate (self, size): validate_allocation.
PoolAllocCall(t) ==
  /\ pc[t] = "idle"
  /\ calls < MaxPoolCalls
  /\ calls' = calls + 1
  /\ \E size \in PoolSizes :
       IF validate_allocation(current_status, size)
       THEN /\ pl' = [pl EXCEPT ![t] = [PoolLocals0 EXCEPT !.size = size]]
            /\ Goto(t, "pa_admit")
       ELSE /\ pl' = [pl EXCEPT ![t] = PoolLocals0]
            /\ UNCHANGED <<pc, ret>>
  /\ UNCHANGED <<hist, held, block_bitmap, pool_memory, block_data,
                 poolMetrics, notPool>>

\* SMALL_ALLOC_SIZE of thread_pool_test_func; one block with its header.
SMALL_ALLOC_SIZE == 64

\* thread_pool_test_func: strategy->allocate (strategy, SMALL_ALLOC_SIZE).
ThrottleAllocCall(t) ==
  /\ pc[t] = "idle"
  /\ calls < MaxThrottleCalls
  /\ calls' = calls + 1
  /\ IF validate_allocation(current_status, SMALL_ALLOC_SIZE)
     THEN /\ pl' = [pl EXCEPT ![t] = [PoolLocals0 EXCEPT
                                       !.size = SMALL_ALLOC_SIZE]]
          /\ Goto(t, "pa_admit")
     ELSE /\ pl' = [pl EXCEPT ![t] = PoolLocals0]
          /\ UNCHANGED <<pc, ret>>
  /\ UNCHANGED <<hist, held, block_bitmap, pool_memory, block_data,
                 poolMetrics, notPool>>

\* test_fragmentation_handling: one client; its sizes take 1, 2, ... and
\* every block, header included.
FragmentThreads == {1}
FragmentSizes ==
  {n * POOL_BLOCK_SIZE - POOL_METADATA_SIZE : n \in 1 .. POOL_BLOCK_COUNT}

\* test_fragmentation_handling: strategy->allocate (strategy, size).
FragmentAllocCall(t) ==
  /\ pc[t] = "idle"
  /\ calls < MaxFragmentCalls
  /\ calls' = calls + 1
  /\ \E size \in FragmentSizes :
       IF validate_allocation(current_status, size)
       THEN /\ pl' = [pl EXCEPT ![t] = [PoolLocals0 EXCEPT !.size = size]]
            /\ Goto(t, "pa_admit")
       ELSE /\ pl' = [pl EXCEPT ![t] = PoolLocals0]
            /\ UNCHANGED <<pc, ret>>
  /\ UNCHANGED <<hist, held, block_bitmap, pool_memory, block_data,
                 poolMetrics, notPool>>

\* Mutant: the throttle lets one more operation in.
PaAdmit_OneMore(t) ==
  /\ pc[t] = "pa_admit"
  /\ concurrent_ops' = (concurrent_ops + 1) % CountModulus
  /\ LET needed == blocks_needed(pl[t].size) IN
     IF \/ concurrent_ops > MAX_ALLOCATION_RETRIES
        \/ needed = 0
        \/ BitmapWords > SIZE_MAX \div BLOCKS_PER_BITMAP
        \/ BitmapWords * BLOCKS_PER_BITMAP > POOL_BLOCK_COUNT
     THEN /\ Goto(t, "pa_fail_dec")
          /\ pl' = [pl EXCEPT ![t].admitted =
                      concurrent_ops <= MAX_ALLOCATION_RETRIES]
     ELSE /\ pl' = [pl EXCEPT ![t].num = needed, ![t].i = 0,
                              ![t].consecutive = 0, ![t].admitted = TRUE]
          /\ Goto(t, "pa_scan")
  /\ UNCHANGED <<calls, hist, held, block_bitmap, pool_memory, block_data,
                 blocks_used, total_allocations, failed_allocations, notPool>>

\* pool_allocate: the fetch_add of concurrent_ops, the throttle,
\* blocks_needed and the entry checks of find_contiguous_blocks.
PaAdmit(t) ==
  /\ pc[t] = "pa_admit"
  /\ concurrent_ops' = (concurrent_ops + 1) % CountModulus
  /\ LET needed == blocks_needed(pl[t].size) IN
     IF \/ concurrent_ops >= MAX_ALLOCATION_RETRIES
        \/ needed = 0
        \/ BitmapWords > SIZE_MAX \div BLOCKS_PER_BITMAP
        \/ BitmapWords * BLOCKS_PER_BITMAP > POOL_BLOCK_COUNT
     THEN /\ Goto(t, "pa_fail_dec")
          /\ pl' = [pl EXCEPT ![t].admitted =
                      concurrent_ops < MAX_ALLOCATION_RETRIES]
     ELSE /\ pl' = [pl EXCEPT ![t].num = needed, ![t].i = 0,
                              ![t].consecutive = 0, ![t].admitted = TRUE]
          /\ Goto(t, "pa_scan")
  /\ UNCHANGED <<calls, hist, held, block_bitmap, pool_memory, block_data,
                 blocks_used, total_allocations, failed_allocations, notPool>>

\* Mutant: a used block does not end the run counted so far.
PaScan_KeepsCount(t) ==
  /\ pc[t] = "pa_scan"
  /\ LET i == pl[t].i
         total_blocks == BitmapWords * BLOCKS_PER_BITMAP IN
     IF BitIdx(i) \notin block_bitmap[WordIdx(i)]
     THEN IF pl[t].consecutive + 1 >= pl[t].num
          THEN IF i < pl[t].num - 1
               THEN /\ pl' = [pl EXCEPT ![t].i = 0, ![t].consecutive = 0]
                    /\ Goto(t, "pa_fail_dec")
               ELSE /\ pl' = [pl EXCEPT ![t].start = i - (pl[t].num - 1),
                                        ![t].i = 0, ![t].consecutive = 0,
                                        ![t].k = 0, ![t].used = TRUE]
                    /\ IF MarkGuard(i - (pl[t].num - 1), pl[t].num)
                       THEN CallSub(t, "mb_load", "pa_blocks_load")
                       ELSE Goto(t, "pa_blocks_load")
          ELSE IF i + 1 < total_blocks
          THEN /\ pl' = [pl EXCEPT ![t].i = i + 1,
                                   ![t].consecutive = @ + 1]
               /\ Goto(t, "pa_scan")
          ELSE /\ pl' = [pl EXCEPT ![t].i = 0, ![t].consecutive = 0]
               /\ Goto(t, "pa_fail_dec")
     ELSE IF i + 1 < total_blocks
          THEN /\ pl' = [pl EXCEPT ![t].i = i + 1]
               /\ Goto(t, "pa_scan")
          ELSE /\ pl' = [pl EXCEPT ![t].i = 0, ![t].consecutive = 0]
               /\ Goto(t, "pa_fail_dec")
  /\ UNCHANGED <<calls, hist, held, block_bitmap, pool_memory, block_data,
                 poolMetrics, notPool>>

\* find_contiguous_blocks: one iteration of the scan, a load of the word of
\* block i; a found run is followed by mark_blocks (..., true).
PaScan(t) ==
  /\ pc[t] = "pa_scan"
  /\ LET i == pl[t].i
         total_blocks == BitmapWords * BLOCKS_PER_BITMAP IN
     IF BitIdx(i) \notin block_bitmap[WordIdx(i)]
     THEN IF pl[t].consecutive + 1 >= pl[t].num
          THEN IF i < pl[t].num - 1
               THEN /\ pl' = [pl EXCEPT ![t].i = 0, ![t].consecutive = 0]
                    /\ Goto(t, "pa_fail_dec")
               ELSE /\ pl' = [pl EXCEPT ![t].start = i - (pl[t].num - 1),
                                        ![t].i = 0, ![t].consecutive = 0,
                                        ![t].k = 0, ![t].used = TRUE]
                    /\ IF MarkGuard(i - (pl[t].num - 1), pl[t].num)
                       THEN CallSub(t, "mb_load", "pa_blocks_load")
                       ELSE Goto(t, "pa_blocks_load")
          ELSE IF i + 1 < total_blocks
          THEN /\ pl' = [pl EXCEPT ![t].i = i + 1,
                                   ![t].consecutive = @ + 1]
               /\ Goto(t, "pa_scan")
          ELSE /\ pl' = [pl EXCEPT ![t].i = 0, ![t].consecutive = 0]
               /\ Goto(t, "pa_fail_dec")
     ELSE IF i + 1 < total_blocks
          THEN /\ pl' = [pl EXCEPT ![t].i = i + 1, ![t].consecutive = 0]
               /\ Goto(t, "pa_scan")
          ELSE /\ pl' = [pl EXCEPT ![t].i = 0, ![t].consecutive = 0]
               /\ Goto(t, "pa_fail_dec")
  /\ UNCHANGED <<calls, hist, held, block_bitmap, pool_memory, block_data,
                 poolMetrics, notPool>>

\* pool_allocate after mark_blocks: load blocks_used and guard the addition.
PaBlocksLoad(t) ==
  /\ pc[t] = "pa_blocks_load"
  /\ IF blocks_used > UINT32_MAX - pl[t].num
     THEN CallMark(t, FALSE, "pa_fail_dec")
     ELSE /\ Goto(t, "pa_blocks_add")
          /\ UNCHANGED pl
  /\ UNCHANGED <<calls, hist, held, block_bitmap, pool_memory, block_data,
                 poolMetrics, notPool>>

\* The fetch_add of blocks_used and of total_allocations (no routine reads
\* total_allocations, so its addition is folded into this step).
PaBlocksAdd(t) ==
  /\ pc[t] = "pa_blocks_add"
  /\ blocks_used' = (blocks_used + pl[t].num) % CountModulus
  /\ total_allocations' = (total_allocations + 1) % CountModulus
  /\ Goto(t, "pa_header")
  /\ UNCHANGED <<calls, hist, pl, held, block_bitmap, pool_memory,
                 block_data, failed_allocations, concurrent_ops, notPool>>

\* *(size_t *) block_start = needed.
PaHeader(t) ==
  /\ pc[t] = "pa_header"
  /\ pool_memory' = [pool_memory EXCEPT ![pl[t].start] = pl[t].num]
  /\ pl' = [pl EXCEPT ![t].k = 0]
  /\ Goto(t, "pa_scrub")
  /\ UNCHANGED <<calls, hist, held, block_bitmap, block_data, poolMetrics,
                 notPool>>

\* secure_clear_memory (user_ptr, needed * POOL_BLOCK_SIZE -
\* POOL_METADATA_SIZE): the part of it that lies in block start + k.
PaScrub(t) ==
  /\ pc[t] = "pa_scrub"
  /\ LET block == pl[t].start + pl[t].k
         last == pl[t].k + 1 >= pl[t].num IN
     /\ block_data' = [block_data EXCEPT ![block] = 0]
     /\ pool_memory' = IF pl[t].k = 0 THEN pool_memory
                       ELSE [pool_memory EXCEPT ![block] = 0]
     /\ pl' = [pl EXCEPT ![t].k = IF last THEN 0 ELSE pl[t].k + 1]
     /\ Goto(t, IF last THEN "pa_done" ELSE "pa_scrub")
  /\ UNCHANGED <<calls, hist, held, block_bitmap, poolMetrics, notPool>>

\* The fetch_sub of concurrent_ops; pool_allocate returns user_ptr, which the
\* caller holds from now on.
PaDone(t) ==
  /\ pc[t] = "pa_done"
  /\ concurrent_ops' = (concurrent_ops - 1 + CountModulus) % CountModulus
  /\ hist' = [hist EXCEPT !.allocs = @ + 1]
  /\ held' = [held EXCEPT ![t] =
                @ \cup {[id |-> hist.allocs + 1, start |-> pl[t].start,
                         num |-> pl[t].num]}]
  /\ pl' = [pl EXCEPT ![t] = [PoolLocals0 EXCEPT
                                !.result = UserPtr(pl[t].start)]]
  /\ Goto(t, "idle")
  /\ UNCHANGED <<calls, block_bitmap, pool_memory, block_data, blocks_used,
                 total_allocations, failed_allocations, notPool>>

\* A failing pool_allocate: the fetch_sub of concurrent_ops ...
PaFailDec(t) ==
  /\ pc[t] = "pa_fail_dec"
  /\ concurrent_ops' = (concurrent_ops - 1 + CountModulus) % CountModulus
  /\ Goto(t, "pa_fail_count")
  /\ UNCHANGED <<calls, hist, pl, held, block_bitmap, pool_memory,
                 block_data, blocks_used, total_allocations,
                 failed_allocations, notPool>>

\* ... and the fetch_add of failed_allocations; it returns NULL.
PaFailCount(t) ==
  /\ pc[t] = "pa_fail_count"
  /\ failed_allocations' = (failed_allocations + 1) % CountModulus
  /\ pl' = [pl EXCEPT ![t] = PoolLocals0]
  /\ Goto(t, "idle")
  /\ UNCHANGED <<calls, hist, held, block_bitmap, pool_memory, block_data,
                 blocks_used, total_allocations, concurrent_ops, notPool>>

\* pool_deallocate (self, ptr): validate_deallocation.
EnterPoolDeallocate(t, ptr, owned, foreign) ==
  IF validate_deallocation(current_status, ptr)
  THEN /\ pl' = [pl EXCEPT ![t] = [PoolLocals0 EXCEPT
                   !.ptr = ptr, !.owned = owned, !.foreign = foreign]]
       /\ Goto(t, "pd_admit")
  ELSE /\ pl' = [pl EXCEPT ![t] = PoolLocals0]
       /\ UNCHANGED <<pc, ret>>

\* The pointers at which an allocation starts that a thread holds.
OutstandingPtrs ==
  {UserPtr(a.start) : a \in UNION {held[u] : u \in PoolThreads}}

\* thread_pool_test_func: strategy->deallocate (strategy, ptrs[i]).
ThrottleDeallocCall(t) ==
  /\ pc[t] = "idle"
  /\ calls < MaxThrottleCalls
  /\ calls' = calls + 1
  /\ \E a \in held[t] :
       /\ held' = [held EXCEPT ![t] = @ \ {a}]
       /\ EnterPoolDeallocate(t, UserPtr(a.start), a, FALSE)
  /\ UNCHANGED <<hist, block_bitmap, pool_memory, block_data, poolMetrics,
                 notPool>>

\* test_fragmentation_handling: strategy->deallocate (strategy, ptrs[i]).
FragmentDeallocCall(t) ==
  /\ pc[t] = "idle"
  /\ calls < MaxFragmentCalls
  /\ calls' = calls + 1
  /\ \E a \in held[t] :
       /\ held' = [held EXCEPT ![t] = @ \ {a}]
       /\ EnterPoolDeallocate(t, UserPtr(a.start), a, FALSE)
  /\ UNCHANGED <<hist, block_bitmap, pool_memory, block_data, poolMetrics,
                 notPool>>

\* A client deallocates an allocation it holds.
PoolDeallocHeld(t) ==
  /\ pc[t] = "idle"
  /\ calls < MaxPoolCalls
  /\ calls' = calls + 1
  /\ \E a \in held[t] :
       /\ held' = [held EXCEPT ![t] = @ \ {a}]
       /\ EnterPoolDeallocate(t, UserPtr(a.start), a, FALSE)
  /\ UNCHANGED <<hist, block_bitmap, pool_memory, block_data, poolMetrics,
                 notPool>>

\* A client deallocates a pointer at which no outstanding allocation starts:
\* one freed before, one never returned by pool_allocate, one outside the
\* arena, a misaligned one or NULL.
PoolDeallocOther(t) ==
  /\ pc[t] = "idle"
  /\ calls < MaxPoolCalls
  /\ calls' = calls + 1
  /\ \E ptr \in PoolPtrInputs \ OutstandingPtrs :
       EnterPoolDeallocate(t, ptr, NoAlloc, TRUE)
  /\ hist' = [hist EXCEPT !.foreign = TRUE]
  /\ UNCHANGED <<held, block_bitmap, pool_memory, block_data, poolMetrics,
                 notPool>>

\* A client fills the payload of an allocation it holds; the first word of
\* every block after the first lies in the payload.
PoolUserWrite(t) ==
  /\ pc[t] = "idle"
  /\ calls < MaxPoolCalls
  /\ calls' = calls + 1
  /\ \E a \in held[t], v \in UserWords :
       /\ block_data' = [b \in Blocks |->
                           IF b \in Run(a.start, a.num) THEN t
                           ELSE block_data[b]]
       /\ pool_memory' = [b \in Blocks |->
                            IF b \in Run(a.start + 1, a.num - 1) THEN v
                            ELSE pool_memory[b]]
  /\ UNCHANGED <<pc, ret, hist, pl, held, block_bitmap, poolMetrics, notPool>>

\* pool_deallocate: the fetch_add of concurrent_ops, the throttle, the range
\* check of block_start and the block index.
PdAdmit(t) ==
  /\ pc[t] = "pd_admit"
  /\ concurrent_ops' = (concurrent_ops + 1) % CountModulus
  /\ LET block_start == pl[t].ptr - POOL_METADATA_SIZE
         pool_size == POOL_BLOCK_SIZE * POOL_BLOCK_COUNT IN
     IF \/ concurrent_ops >= MAX_ALLOCATION_RETRIES
        \/ ~is_ptr_in_pool_range(block_start, PoolBase, pool_size)
     THEN /\ Goto(t, "pd_dec")
          /\ pl' = [pl EXCEPT ![t].admitted =
                      concurrent_ops < MAX_ALLOCATION_RETRIES]
     ELSE /\ pl' = [pl EXCEPT
                      ![t].start =
                        (block_start - PoolBase) \div POOL_BLOCK_SIZE,
                      ![t].admitted = TRUE]
          /\ Goto(t, "pd_used")
  /\ UNCHANGED <<calls, hist, held, block_bitmap, pool_memory, block_data,
                 blocks_used, total_allocations, failed_allocations, notPool>>

\* is_block_used (bitmap, block_index).
PdUsed(t) ==
  /\ pc[t] = "pd_used"
  /\ IF is_block_used(block_bitmap, pl[t].start)
     THEN Goto(t, "pd_header")
     ELSE Goto(t, "pd_dec")
  /\ UNCHANGED <<calls, hist, pl, held, block_bitmap, pool_memory,
                 block_data, poolMetrics, notPool>>

\* num_blocks = *(size_t *) block_start, and its bounds check.
PdHeader(t) ==
  /\ pc[t] = "pd_header"
  /\ LET num_blocks == pool_memory[pl[t].start] IN
     IF num_blocks = 0 \/ pl[t].start + num_blocks > POOL_BLOCK_COUNT
     THEN /\ Goto(t, "pd_dec")
          /\ UNCHANGED pl
     ELSE /\ pl' = [pl EXCEPT ![t].num = num_blocks, ![t].k = 0]
          /\ Goto(t, "pd_scrub")
  /\ UNCHANGED <<calls, hist, held, block_bitmap, pool_memory, block_data,
                 poolMetrics, notPool>>

\* secure_clear_memory (block_start, num_blocks * POOL_BLOCK_SIZE): block
\* start + k; after the last block, mark_blocks (..., false).
PdScrub(t) ==
  /\ pc[t] = "pd_scrub"
  /\ LET block == pl[t].start + pl[t].k
         last == pl[t].k + 1 >= pl[t].num IN
     /\ block_data' = [block_data EXCEPT ![block] = 0]
     /\ pool_memory' = [pool_memory EXCEPT ![block] = 0]
     /\ IF last
        THEN CallMark(t, FALSE, "pd_blocks_load")
        ELSE /\ pl' = [pl EXCEPT ![t].k = pl[t].k + 1]
             /\ Goto(t, "pd_scrub")
  /\ UNCHANGED <<calls, hist, held, block_bitmap, poolMetrics, notPool>>

\* Load blocks_used and compare it with num_blocks.
PdBlocksLoad(t) ==
  /\ pc[t] = "pd_blocks_load"
  /\ IF blocks_used >= pl[t].num
     THEN Goto(t, "pd_blocks_sub")
     ELSE Goto(t, "pd_dec")
  /\ UNCHANGED <<calls, hist, pl, held, block_bitmap, pool_memory,
                 block_data, poolMetrics, notPool>>

\* The fetch_sub of blocks_used.
PdBlocksSub(t) ==
  /\ pc[t] = "pd_blocks_sub"
  /\ blocks_used' = (blocks_used - pl[t].num + CountModulus) % CountModulus
  /\ pl' = [pl EXCEPT ![t].sub = pl[t].num]
  /\ Goto(t, "pd_dec")
  /\ UNCHANGED <<calls, hist, held, block_bitmap, pool_memory, block_data,
                 total_allocations, failed_allocations, concurrent_ops,
                 notPool>>

\* The fetch_sub of concurrent_ops; pool_deallocate returns.
PdDec(t) ==
  /\ pc[t] = "pd_dec"
  /\ concurrent_ops' = (concurrent_ops - 1 + CountModulus) % CountModulus
  /\ pl' = [pl EXCEPT ![t] = PoolLocals0]
  /\ Goto(t, "idle")
  /\ UNCHANGED <<calls, hist, held, block_bitmap, pool_memory, block_data,
                 blocks_used, total_allocations, failed_allocations, notPool>>

\* The steps of pool_allocate and pool_deallocate of thread t.
PoolStep(t) ==
  \/ MbLoad(t) \/ MbStore(t)
  \/ PaAdmit(t) \/ PaScan(t) \/ PaBlocksLoad(t) \/ PaBlocksAdd(t)
  \/ PaHeader(t) \/ PaScrub(t) \/ PaDone(t)
  \/ PaFailDec(t) \/ PaFailCount(t)
  \/ PdAdmit(t) \/ PdUsed(t) \/ PdHeader(t) \/ PdScrub(t)
  \/ PdBlocksLoad(t) \/ PdBlocksSub(t) \/ PdDec(t)

\* create_pool_strategy: an empty bitmap, a scrubbed arena, zero metrics.
InitPool ==
  /\ pl = [t \in Threads |-> PoolLocals0]
  /\ held = [t \in Threads |-> {}]
  /\ block_bitmap = [w \in 0 .. (BitmapWords - 1) |-> {}]
  /\ pool_memory = [b \in Blocks |-> 0]
  /\ block_data = [b \in Blocks |-> 0]
  /\ blocks_used = 0
  /\ total_allocations = 0
  /\ failed_allocations = 0
  /\ concurrent_ops = 0

(***************************************************************************)
(* The validators (strategy_validator.c) and the strategy over malloc and  *)
(* free that initialize_strategy sets up (memory_strategy.c).              *)
(***************************************************************************)
\* A MemoryStrategy: which function slots are populated and whether
\* status_tracker is set.
Strategies ==
  [ allocate : BOOLEAN, deallocate : BOOLEAN, get_status : BOOLEAN,
    validate : BOOLEAN, status_tracker : BOOLEAN ]

InitializedStrategy ==
  [ allocate |-> TRUE, deallocate |-> TRUE, get_status |-> TRUE,
    validate |-> TRUE, status_tracker |-> TRUE ]

\* The struct after cleanup_strategy's memset.
ClearedStrategy ==
  [ allocate |-> FALSE, deallocate |-> FALSE, get_status |-> FALSE,
    validate |-> FALSE, status_tracker |-> FALSE ]

\* op: the routine that ran last; isNull: it was given a NULL strategy.
BaseLocals0 ==
  [ op |-> "none", isNull |-> FALSE, size |-> 0, ptr |-> NULL,
    result |-> FALSE, rptr |-> NULL ]

\* Sizes and pointers handed to the validators: both sides of every bound.
ValidatorSizes == {0, 1, SIZE_MAX \div 2, SIZE_MAX \div 2 + 1, SIZE_MAX}
ValidatorPtrs == {NULL, PointerSize, PointerSize + 4, 2 * PointerSize}

\* Mutant: the validate slot is not looked at.
validate_function_pointers_NoValidate(s) ==
  s.allocate /\ s.deallocate /\ s.get_status

validate_function_pointers(s) ==
  s.allocate /\ s.deallocate /\ s.get_status /\ s.validate

\* validate_strategy: the NULL check, validate_function_pointers and
\* validate_state (which asks for a status_tracker first).
validate_strategy(isNull, s, status) ==
  IF isNull THEN FALSE
  ELSE validate_function_pointers(s)
         /\ (s.status_tracker /\ validate_state(status))

\* validate_strategy (strategy) or validate_strategy (NULL).
ValidateStrategyCall(t) ==
  /\ pc[t] = "idle"
  /\ \E isNull \in BOOLEAN :
       bl' = [bl EXCEPT ![t] = [BaseLocals0 EXCEPT
                !.op = "validate_strategy", !.isNull = isNull,
                !.result = validate_strategy(isNull, strategy,
                                             current_status)]]
  /\ UNCHANGED <<pc, ret, tl, sl, calls, clientVars, trackerVars, statsVars,
                 poolVars, defaultVars, strategy, solanaVars, component>>

\* validate_allocation (strategy, size): the NULL check, validate_state and
\* validate_size.
ValidateAllocationCall(t) ==
  /\ pc[t] = "idle"
  /\ \E isNull \in BOOLEAN, size \in ValidatorSizes :
       bl' = [bl EXCEPT ![t] = [BaseLocals0 EXCEPT
                !.op = "validate_allocation", !.isNull = isNull,
                !.size = size,
                !.result = IF isNull \/ ~strategy.status_tracker THEN FALSE
                           ELSE validate_allocation(current_status, size)]]
  /\ UNCHANGED <<pc, ret, tl, sl, calls, clientVars, trackerVars, statsVars,
                 poolVars, defaultVars, strategy, solanaVars, component>>

\* validate_deallocation (strategy, ptr): the NULL check, validate_state and
\* validate_pointer.
ValidateDeallocationCall(t) ==
  /\ pc[t] = "idle"
  /\ \E isNull \in BOOLEAN, ptr \in ValidatorPtrs :
       bl' = [bl EXCEPT ![t] = [BaseLocals0 EXCEPT
                !.op = "validate_deallocation", !.isNull = isNull,
                !.ptr = ptr,
                !.result = IF isNull \/ ~strategy.status_tracker THEN FALSE
                           ELSE validate_deallocation(current_status, ptr)]]
  /\ UNCHANGED <<pc, ret, tl, sl, calls, clientVars, trackerVars, statsVars,
                 poolVars, defaultVars, strategy, solanaVars, component>>

\* initialize_status has run to its end on the tracker.
StatusInitialized ==
  \E t \in Threads :
    bl[t].op = "initialize_status" /\ ~bl[t].isNull /\ bl[t].result

\* initialize_status (tracker) on a tracker no other thread is using (a
\* tracker is set up before it is shared): the NULL check is passed.
InitializeStatusCall(t) ==
  /\ \A u \in Threads : pc[u] = "idle"
  /\ calls < MaxInitializeCalls
  /\ calls' = calls + 1
  /\ bl' = [bl EXCEPT ![t] = [BaseLocals0 EXCEPT !.op = "initialize_status"]]
  /\ tl' = [tl EXCEPT ![t] = TrackerLocals0]
  /\ pc' = [pc EXCEPT ![t] = "init_status"]
  /\ UNCHANGED <<ret, sl, clientVars, trackerVars, statsVars, poolVars,
                 defaultVars, strategy, solanaVars, component>>

\* initialize_status (NULL) is called.
InitializeStatusNull(t) ==
  /\ pc[t] = "idle"
  /\ calls < MaxInitializeCalls
  /\ calls' = calls + 1
  /\ bl' = [bl EXCEPT ![t] = [BaseLocals0 EXCEPT !.op = "initialize_status",
                                                  !.isNull = TRUE]]
  /\ tl' = [tl EXCEPT ![t] = TrackerLocals0]
  /\ pc' = [pc EXCEPT ![t] = "init_null"]
  /\ UNCHANGED <<ret, sl, clientVars, trackerVars, statsVars, poolVars,
                 defaultVars, strategy, solanaVars, component>>

\* The NULL check of initialize_status returns STRATEGY_NULL_POINTER.
InitNullReturn(t) ==
  /\ pc[t] = "init_null"
  /\ tl' = [tl EXCEPT ![t].result = STRATEGY_NULL_POINTER]
  /\ pc' = [pc EXCEPT ![t] = "idle"]
  /\ UNCHANGED <<ret, sl, bl, calls, clientVars, trackerVars, statsVars,
                 poolVars, defaultVars, strategy, solanaVars, component>>

\* atomic_init (&tracker->current_status, STRATEGY_STATE_INITIALIZED).
InitStoreStatus(t) ==
  /\ pc[t] = "init_status"
  /\ current_status' = STRATEGY_STATE_INITIALIZED
  /\ pc' = [pc EXCEPT ![t] = "init_transitions"]
  /\ UNCHANGED <<ret, tl, sl, calls, clientVars, transition_count,
                 error_count, statsVars, poolVars, defaultVars, moreVars>>

\* The store of 0 to transition_count.
InitStoreTransitions(t) ==
  /\ pc[t] = "init_transitions"
  /\ transition_count' = 0
  /\ pc' = [pc EXCEPT ![t] = "init_errors"]
  /\ UNCHANGED <<ret, tl, sl, calls, clientVars, current_status, error_count,
                 statsVars, poolVars, defaultVars, moreVars>>

\* Mutant: error_count is left as it was.
InitStoreErrors_NoStore(t) ==
  /\ pc[t] = "init_errors"
  /\ tl' = [tl EXCEPT ![t].result = STRATEGY_SUCCESS]
  /\ bl' = [bl EXCEPT ![t].result = TRUE]
  /\ pc' = [pc EXCEPT ![t] = "idle"]
  /\ UNCHANGED <<ret, sl, calls, clientVars, trackerVars, statsVars,
                 poolVars, defaultVars, strategy, solanaVars, component>>

\* The store of 0 to error_count; initialize_status returns
\* STRATEGY_SUCCESS.
InitStoreErrors(t) ==
  /\ pc[t] = "init_errors"
  /\ error_count' = 0
  /\ tl' = [tl EXCEPT ![t].result = STRATEGY_SUCCESS]
  /\ bl' = [bl EXCEPT ![t].result = TRUE]
  /\ pc' = [pc EXCEPT ![t] = "idle"]
  /\ UNCHANGED <<ret, sl, calls, clientVars, current_status,
                 transition_count, statsVars, poolVars, defaultVars, strategy,
                 solanaVars, component>>

\* transition_status on a tracker that initialize_status has set up.
InitializedTransitionCall(t) ==
  /\ StatusInitialized
  /\ calls < MaxInitializeCalls
  /\ \A u \in Threads : pc[u] \notin {"init_status", "init_transitions",
                                      "init_errors"}
  /\ TransitionStatusCall(t)

\* The sizes test_error_recovery and the allocation tests hand to the strategy.
BaseSizes == {0, 16}

\* malloc hands out 8-byte aligned addresses.
BaseAddress(p) == p * PointerSize

\* initialize_strategy returned false: it has freed the tracker and left the
\* pointer to it in the struct, so the struct cannot be used any more.
InitializeFailed ==
  \E t \in Threads :
    /\ pc[t] = "idle"
    /\ bl[t].op = "initialize_strategy"
    /\ ~bl[t].result

\* The strategy is used from one thread at a time when it is set up or torn
\* down (memory_strategy_test.c).
BaseQuiet == \A t \in Threads : pc[t] = "idle"

\* Some thread is inside initialize_strategy.
Initializing ==
  \E t \in Threads :
    \/ pc[t] = "is_done"
    \/ \E i \in DOMAIN ret[t] : ret[t][i] = "is_done"

\* default_allocate of memory_strategy.c: validate_allocation; a refused call
\* moves the tracker to ERROR and returns NULL; otherwise malloc, whose failure
\* moves the tracker to ERROR as well.
BaseAllocCall(t) ==
  /\ pc[t] = "idle"
  /\ strategy.allocate
  /\ ~InitializeFailed
  /\ ~Initializing
  /\ calls < MaxBaseCalls
  /\ calls' = calls + 1
  /\ \E size \in BaseSizes :
       IF ~(strategy.status_tracker
              /\ validate_allocation(current_status, size))
       THEN /\ bl' = [bl EXCEPT ![t] = [BaseLocals0 EXCEPT
                        !.op = "allocate", !.size = size, !.rptr = NULL]]
            /\ EnterTransition(t, STRATEGY_STATE_ERROR, "idle")
            /\ UNCHANGED clientVars
       ELSE \/ /\ Ptrs \ heap # {}
               /\ LET p == CHOOSE q \in Ptrs \ heap :
                             \A r \in Ptrs \ heap : q <= r IN
                  /\ bl' = [bl EXCEPT ![t] = [BaseLocals0 EXCEPT
                              !.op = "allocate", !.size = size, !.rptr = p,
                              !.result = TRUE]]
                  /\ heap' = heap \cup {p}
                  /\ own' = [own EXCEPT ![t] = @ \cup {p}]
               /\ UNCHANGED <<pc, ret, tl, hist>>
            \/ /\ bl' = [bl EXCEPT ![t] = [BaseLocals0 EXCEPT
                           !.op = "allocate", !.size = size, !.rptr = NULL,
                           !.result = TRUE]]
               /\ EnterTransition(t, STRATEGY_STATE_ERROR, "idle")
               /\ UNCHANGED clientVars
  /\ UNCHANGED <<sl, trackerVars, statsVars, poolVars, defaultVars, strategy,
                 solanaVars, component>>

\* Mutant: a refused deallocate asks for ACTIVE instead of ERROR.
BaseDeallocCall_RequestsActive(t) ==
  /\ pc[t] = "idle"
  /\ strategy.deallocate
  /\ ~InitializeFailed
  /\ ~Initializing
  /\ calls < MaxBaseCalls
  /\ calls' = calls + 1
  /\ \E p \in own[t] \cup {NULL} :
       IF ~(strategy.status_tracker
              /\ validate_deallocation(current_status, BaseAddress(p)))
       THEN /\ bl' = [bl EXCEPT ![t] = [BaseLocals0 EXCEPT
                        !.op = "deallocate", !.ptr = p]]
            /\ EnterTransition(t, STRATEGY_STATE_ACTIVE, "idle")
            /\ UNCHANGED clientVars
       ELSE /\ bl' = [bl EXCEPT ![t] = [BaseLocals0 EXCEPT
                        !.op = "deallocate", !.ptr = p, !.result = TRUE]]
            /\ heap' = heap \ {p}
            /\ own' = [own EXCEPT ![t] = @ \ {p}]
            /\ UNCHANGED <<pc, ret, tl, hist>>
  /\ UNCHANGED <<sl, trackerVars, statsVars, poolVars, defaultVars, strategy,
                 solanaVars, component>>

\* default_deallocate of memory_strategy.c: validate_deallocation; a refused
\* call moves the tracker to ERROR; otherwise free.
BaseDeallocCall(t) ==
  /\ pc[t] = "idle"
  /\ strategy.deallocate
  /\ ~InitializeFailed
  /\ ~Initializing
  /\ calls < MaxBaseCalls
  /\ calls' = calls + 1
  /\ \E p \in own[t] \cup {NULL} :
       IF ~(strategy.status_tracker
              /\ validate_deallocation(current_status, BaseAddress(p)))
       THEN /\ bl' = [bl EXCEPT ![t] = [BaseLocals0 EXCEPT
                        !.op = "deallocate", !.ptr = p]]
            /\ EnterTransition(t, STRATEGY_STATE_ERROR, "idle")
            /\ UNCHANGED clientVars
       ELSE /\ bl' = [bl EXCEPT ![t] = [BaseLocals0 EXCEPT
                        !.op = "deallocate", !.ptr = p, !.result = TRUE]]
            /\ heap' = heap \ {p}
            /\ own' = [own EXCEPT ![t] = @ \ {p}]
            /\ UNCHANGED <<pc, ret, tl, hist>>
  /\ UNCHANGED <<sl, trackerVars, statsVars, poolVars, defaultVars, strategy,
                 solanaVars, component>>

\* cleanup_strategy: frees the tracker and strategy_data and zeroes the struct.
CleanupStrategyCall(t) ==
  /\ BaseQuiet
  /\ strategy.status_tracker
  /\ ~InitializeFailed
  /\ calls < MaxBaseCalls
  /\ calls' = calls + 1
  /\ strategy' = ClearedStrategy
  /\ bl' = [bl EXCEPT ![t] = [BaseLocals0 EXCEPT !.op = "cleanup_strategy"]]
  /\ UNCHANGED <<pc, ret, tl, sl, clientVars, trackerVars, statsVars,
                 poolVars, defaultVars, solanaVars, component>>

\* initialize_strategy on a cleared struct: a new tracker, initialize_status
\* on it, the four slots, then transition_status to ACTIVE.
InitializeStrategyCall(t) ==
  /\ BaseQuiet
  /\ strategy = ClearedStrategy
  /\ calls < MaxBaseCalls
  /\ calls' = calls + 1
  /\ current_status' = STRATEGY_STATE_INITIALIZED
  /\ transition_count' = 0
  /\ error_count' = 0
  /\ strategy' = InitializedStrategy
  /\ bl' = [bl EXCEPT ![t] = [BaseLocals0 EXCEPT !.op = "initialize_strategy",
                                                  !.result = TRUE]]
  /\ EnterTransition(t, STRATEGY_STATE_ACTIVE, "is_done")
  /\ UNCHANGED <<sl, clientVars, statsVars, poolVars, defaultVars, solanaVars,
                 component>>

\* initialize_strategy after transition_status: anything but STRATEGY_SUCCESS
\* frees the tracker and returns false.
InitializeStrategyDone(t) ==
  /\ pc[t] = "is_done"
  /\ bl' = [bl EXCEPT ![t].result = (tl[t].result = STRATEGY_SUCCESS)]
  /\ pc' = [pc EXCEPT ![t] = "idle"]
  /\ UNCHANGED <<ret, tl, sl, calls, clientVars, trackerVars, statsVars,
                 poolVars, defaultVars, strategy, solanaVars, component>>

BaseStep(t) ==
  \/ BaseAllocCall(t) \/ BaseDeallocCall(t) \/ CleanupStrategyCall(t)
  \/ InitializeStrategyCall(t) \/ InitializeStrategyDone(t)

(***************************************************************************)
(* The connection tracker of the Solana client (solana_status.c).          *)
(***************************************************************************)
SOLANA_STATE_UNINITIALIZED == 0
SOLANA_STATE_INITIALIZED == 1
SOLANA_STATE_CONNECTING == 2
SOLANA_STATE_CONNECTED == 3
SOLANA_STATE_DISCONNECTED == 4
SOLANA_STATE_ERROR == 5
SOLANA_STATE_TRANSITIONING == 6
SOLANA_MAX_STATE == SOLANA_STATE_TRANSITIONING

SOLANA_SUCCESS == "SOLANA_SUCCESS"
SOLANA_ERROR_NULL_POINTER == "SOLANA_ERROR_NULL_POINTER"
SOLANA_ERROR_INVALID_STATE == "SOLANA_ERROR_INVALID_STATE"
SOLANA_ERROR_ATOMIC_FAILURE == "SOLANA_ERROR_ATOMIC_FAILURE"
SOLANA_ERROR_INVALID_PARAMS == "SOLANA_ERROR_INVALID_PARAMS"

\* status_transitions[current][new_status], rows and columns in the order of
\* the states (the tuples are indexed from 1).
status_transitions ==
  << <<0, 1, 0, 0, 0, 1, 0>>,
     <<0, 0, 1, 0, 1, 1, 1>>,
     <<0, 0, 0, 1, 1, 1, 1>>,
     <<0, 0, 0, 0, 1, 1, 1>>,
     <<0, 1, 1, 0, 0, 1, 1>>,
     <<1, 1, 1, 0, 1, 0, 1>>,
     <<1, 1, 1, 1, 1, 1, 0>> >>

SolanaEdge(current, new_status) ==
  status_transitions[current + 1][new_status + 1] = 1

\* atomic_fetch_add on a uint64_t counter of the connection tracker.
SolanaFetchAdd(counter) ==
  [solana_tracker EXCEPT ![counter] = (@ + 1) % (UINT64_MAX + 1)]

SolanaLocals0 ==
  [new_status |-> 0, current |-> 0, tracker_null |-> FALSE,
   result |-> NoResult,
   \* Where the caller goes on when solana_status_transition returns.
   cont |-> "idle",
   \* The call of the strategy under way (or the last one): which, the status
   \* it found, how the RPC node answers during the call, and its result.
   op |-> "none", from |-> 0, rpc |-> "ok", out |-> NoResult,
   \* For the properties: no call of another client has been under way
   \* during this call.
   alone |-> TRUE]

\* The SolanaCommImpl after solana_comm_create (calloc): no blockhash cached,
\* no reconnect counted.
CreatedImpl == [blockhash_slot |-> 0, ws_reconnects |-> 0]

\* The tracker after solana_status_init.
InitializedSolanaTracker ==
  [ current_status |-> SOLANA_STATE_INITIALIZED, transition_count |-> 1,
    error_count |-> 0 ]

\* What the steps of solana_status_transition leave alone.
notSolana ==
  <<ret, tl, sl, calls, clientVars, trackerVars, statsVars, poolVars,
    defaultVars, baseVars, impl, component>>

\* solana_status_transition (tracker, new_status) is called: the NULL check
\* and the range check of new_status.
SolanaTransitionCall(t) ==
  /\ pc[t] = "idle"
  /\ calls < MaxSolanaCalls
  /\ calls' = calls + 1
  /\ \E is_null \in BOOLEAN, new_status \in 0 .. (SOLANA_MAX_STATE + 1) :
       /\ is_null => new_status = SOLANA_STATE_CONNECTING
       /\ sol' = [sol EXCEPT ![t] =
                    [SolanaLocals0 EXCEPT
                       !.new_status = new_status,
                       !.tracker_null = is_null,
                       !.result =
                         IF is_null THEN SOLANA_ERROR_NULL_POINTER
                         ELSE IF new_status > SOLANA_MAX_STATE
                           THEN SOLANA_ERROR_INVALID_PARAMS
                           ELSE NoResult]]
       /\ pc' = [pc EXCEPT ![t] =
                   IF is_null \/ new_status > SOLANA_MAX_STATE
                     THEN "idle" ELSE "sol_load"]
  /\ UNCHANGED <<ret, tl, sl, clientVars, trackerVars, statsVars, poolVars,
                 defaultVars, baseVars, solana_tracker, impl, component>>

\* current = atomic_load (&tracker->current_status).
SolLoad(t) ==
  /\ pc[t] = "sol_load"
  /\ sol' = [sol EXCEPT ![t].current = solana_tracker.current_status]
  /\ pc' = [pc EXCEPT ![t] = "sol_check"]
  /\ UNCHANGED <<solana_tracker, notSolana>>

\* Mutant: a forbidden transition is turned down without being counted.
SolCheck_NotCounted(t) ==
  /\ pc[t] = "sol_check"
  /\ IF SolanaEdge(sol[t].current, sol[t].new_status)
       THEN /\ pc' = [pc EXCEPT ![t] = "sol_cas"]
            /\ UNCHANGED <<sol, solana_tracker>>
       ELSE /\ sol' = [sol EXCEPT ![t].result = SOLANA_ERROR_INVALID_STATE]
            /\ pc' = [pc EXCEPT ![t] = sol[t].cont]
            /\ UNCHANGED solana_tracker
  /\ UNCHANGED notSolana

\* The check against status_transitions: a forbidden transition adds 1 to
\* error_count and returns SOLANA_ERROR_INVALID_STATE.
SolCheck(t) ==
  /\ pc[t] = "sol_check"
  /\ IF SolanaEdge(sol[t].current, sol[t].new_status)
       THEN /\ pc' = [pc EXCEPT ![t] = "sol_cas"]
            /\ UNCHANGED <<sol, solana_tracker>>
       ELSE /\ solana_tracker' = SolanaFetchAdd("error_count")
            /\ sol' = [sol EXCEPT ![t].result = SOLANA_ERROR_INVALID_STATE]
            /\ pc' = [pc EXCEPT ![t] = sol[t].cont]
  /\ UNCHANGED notSolana

\* atomic_compare_exchange_strong (&tracker->current_status, &current,
\* new_status).
SolCas(t) ==
  /\ pc[t] = "sol_cas"
  /\ IF solana_tracker.current_status = sol[t].current
       THEN /\ solana_tracker' =
                 [solana_tracker EXCEPT !.current_status = sol[t].new_status]
            /\ pc' = [pc EXCEPT ![t] = "sol_count"]
            /\ UNCHANGED sol
       ELSE /\ sol' = [sol EXCEPT
                         ![t].current = solana_tracker.current_status]
            /\ pc' = [pc EXCEPT ![t] = "sol_cas_failed"]
            /\ UNCHANGED solana_tracker
  /\ UNCHANGED notSolana

\* The compare-and-swap failed: error_count is incremented and
\* SOLANA_ERROR_ATOMIC_FAILURE returned.
SolCasFailed(t) ==
  /\ pc[t] = "sol_cas_failed"
  /\ solana_tracker' = SolanaFetchAdd("error_count")
  /\ sol' = [sol EXCEPT ![t].result = SOLANA_ERROR_ATOMIC_FAILURE]
  /\ pc' = [pc EXCEPT ![t] = sol[t].cont]
  /\ UNCHANGED notSolana

\* The compare-and-swap succeeded: transition_count is incremented.
SolCount(t) ==
  /\ pc[t] = "sol_count"
  /\ solana_tracker' = SolanaFetchAdd("transition_count")
  /\ IF sol[t].new_status = SOLANA_STATE_ERROR
       THEN /\ pc' = [pc EXCEPT ![t] = "sol_error"]
            /\ UNCHANGED sol
       ELSE /\ sol' = [sol EXCEPT ![t].result = SOLANA_SUCCESS]
            /\ pc' = [pc EXCEPT ![t] = sol[t].cont]
  /\ UNCHANGED notSolana

\* The transition was to SOLANA_STATE_ERROR: error_count is incremented.
SolError(t) ==
  /\ pc[t] = "sol_error"
  /\ solana_tracker' = SolanaFetchAdd("error_count")
  /\ sol' = [sol EXCEPT ![t].result = SOLANA_SUCCESS]
  /\ pc' = [pc EXCEPT ![t] = sol[t].cont]
  /\ UNCHANGED notSolana

(***************************************************************************)
(* The connection calls of the Solana strategy (solana_comm.c).  They run  *)
(* the steps of solana_status_transition above on the tracker of the impl. *)
(***************************************************************************)
SOLANA_ERROR_RPC_FAILED == "SOLANA_ERROR_RPC_FAILED"

\* The clients of the strategy.
CommThreads == 1 .. NumSolanaThreads

\* The RPC node during a call: it answers both requests, it fails the
\* health request, or it answers that one and fails the blockhash request.
RpcNodes == {"ok", "no_health", "no_blockhash"}

\* The slots solana_rpc_get_latest_blockhash may report.
BlockhashSlots == {1, 2}

\* What the steps of impl_connect, impl_disconnect and impl_reconnect leave
\* alone.
notComm ==
  <<ret, tl, sl, calls, clientVars, trackerVars, statsVars, poolVars,
    defaultVars, baseVars, component>>

\* solana_status_transition (&impl->status_tracker, new_status) called from
\* the strategy; the caller goes on at cont.
EnterSolanaTransition(t, locals, new_status, cont) ==
  /\ sol' = [sol EXCEPT ![t] = [locals EXCEPT !.new_status = new_status,
                                               !.current = 0,
                                               !.result = NoResult,
                                               !.cont = cont]]
  /\ pc' = [pc EXCEPT ![t] = "sol_load"]

\* The locals of a call thread t starts, and the note in the locals of the
\* calls under way that they overlap with it.
StartCall(t, locals) ==
  [u \in Threads |->
     IF u = t
       THEN [locals EXCEPT !.alone = \A v \in CommThreads \ {t} :
                                       pc[v] = "idle"]
       ELSE IF pc[u] # "idle" THEN [sol[u] EXCEPT !.alone = FALSE]
                              ELSE sol[u]]

\* impl_connect (self): the NULL check, then the transition to CONNECTING.
ConnectCall(t) ==
  /\ pc[t] = "idle"
  /\ calls < MaxCommCalls
  /\ calls' = calls + 1
  /\ \E is_null \in BOOLEAN, node \in RpcNodes :
       LET locals == [SolanaLocals0 EXCEPT
                        !.op = "connect",
                        !.rpc = node,
                        !.from = solana_tracker.current_status]
       IN IF is_null
          THEN /\ sol' = StartCall(t, [locals EXCEPT
                               !.tracker_null = TRUE,
                               !.out = SOLANA_ERROR_NULL_POINTER])
               /\ UNCHANGED pc
          ELSE /\ sol' = StartCall(t, [locals EXCEPT
                               !.new_status = SOLANA_STATE_CONNECTING,
                               !.cont = "cn_connecting"])
               /\ pc' = [pc EXCEPT ![t] = "sol_load"]
  /\ UNCHANGED <<ret, tl, sl, clientVars, trackerVars, statsVars, poolVars,
                 defaultVars, baseVars, solana_tracker, impl, component>>

\* if (result != SOLANA_SUCCESS) return result;
CnConnecting(t) ==
  /\ pc[t] = "cn_connecting"
  /\ IF sol[t].result # SOLANA_SUCCESS
       THEN /\ sol' = [sol EXCEPT ![t].out = sol[t].result]
            /\ pc' = [pc EXCEPT ![t] = "idle"]
       ELSE /\ pc' = [pc EXCEPT ![t] = "cn_health"]
            /\ UNCHANGED sol
  /\ UNCHANGED <<solana_tracker, impl, notComm>>

\* solana_rpc_health (impl->rpc_client); on a failure the transition to ERROR.
CnHealth(t) ==
  /\ pc[t] = "cn_health"
  /\ IF sol[t].rpc = "no_health"
       THEN EnterSolanaTransition(t, sol[t], SOLANA_STATE_ERROR, "cn_failed")
       ELSE /\ pc' = [pc EXCEPT ![t] = "cn_blockhash"]
            /\ UNCHANGED sol
  /\ UNCHANGED <<solana_tracker, impl, notComm>>

\* solana_rpc_get_latest_blockhash (impl->rpc_client, &blockhash); on a
\* failure the transition to ERROR, else the blockhash is cached and the
\* transition to CONNECTED follows.
CnBlockhash(t) ==
  /\ pc[t] = "cn_blockhash"
  /\ IF sol[t].rpc = "no_blockhash"
       THEN /\ EnterSolanaTransition(t, sol[t], SOLANA_STATE_ERROR,
                                     "cn_failed")
            /\ UNCHANGED impl
       ELSE \E slot \in BlockhashSlots :
              /\ impl' = [impl EXCEPT !.blockhash_slot = slot]
              /\ EnterSolanaTransition(t, sol[t], SOLANA_STATE_CONNECTED,
                                       "cn_connected")
  /\ UNCHANGED <<solana_tracker, notComm>>

\* return result; after the transition to ERROR: the result of the RPC call.
CnFailed(t) ==
  /\ pc[t] = "cn_failed"
  /\ sol' = [sol EXCEPT ![t].out = SOLANA_ERROR_RPC_FAILED]
  /\ pc' = [pc EXCEPT ![t] = "idle"]
  /\ UNCHANGED <<solana_tracker, impl, notComm>>

\* return result; after the transition to CONNECTED: its result.
CnConnected(t) ==
  /\ pc[t] = "cn_connected"
  /\ sol' = [sol EXCEPT ![t].out = sol[t].result]
  /\ pc' = [pc EXCEPT ![t] = "idle"]
  /\ UNCHANGED <<solana_tracker, impl, notComm>>

\* impl_disconnect (self), called by the client (op "disconnect") or as the
\* first step of impl_reconnect (op "reconnect").
DisconnectCall(t) ==
  /\ pc[t] = "idle"
  /\ calls < MaxCommCalls
  /\ calls' = calls + 1
  /\ \E is_null \in BOOLEAN, op \in {"disconnect", "reconnect"},
        node \in RpcNodes :
       LET locals == [SolanaLocals0 EXCEPT
                        !.op = op,
                        !.rpc = IF op = "reconnect" THEN node ELSE "ok",
                        !.from = solana_tracker.current_status]
       IN IF is_null
          THEN /\ sol' = StartCall(t, [locals EXCEPT
                               !.tracker_null = TRUE,
                               !.out = SOLANA_ERROR_NULL_POINTER])
               /\ UNCHANGED pc
          ELSE /\ sol' = StartCall(t, [locals EXCEPT
                               !.new_status = SOLANA_STATE_DISCONNECTED,
                               !.cont = "dc_done"])
               /\ pc' = [pc EXCEPT ![t] = "sol_load"]
  /\ UNCHANGED <<ret, tl, sl, clientVars, trackerVars, statsVars, poolVars,
                 defaultVars, baseVars, solana_tracker, impl, component>>

\* Mutant: impl_reconnect gives up when impl_disconnect returns
\* SOLANA_ERROR_INVALID_STATE.
DcDone_Strict(t) ==
  /\ pc[t] = "dc_done"
  /\ IF sol[t].op = "reconnect" /\ sol[t].result = SOLANA_SUCCESS
       THEN /\ impl' = [impl EXCEPT !.ws_reconnects =
                                      (@ + 1) % (UINT64_MAX + 1)]
            /\ EnterSolanaTransition(t, sol[t], SOLANA_STATE_CONNECTING,
                                     "cn_connecting")
       ELSE /\ sol' = [sol EXCEPT ![t].out = sol[t].result]
            /\ pc' = [pc EXCEPT ![t] = "idle"]
            /\ UNCHANGED impl
  /\ UNCHANGED <<solana_tracker, notComm>>

\* impl_disconnect returns the result of the transition.  impl_reconnect
\* goes on unless that result is an error other than
\* SOLANA_ERROR_INVALID_STATE: it counts the reconnect and runs impl_connect.
DcDone(t) ==
  /\ pc[t] = "dc_done"
  /\ IF /\ sol[t].op = "reconnect"
        /\ sol[t].result \in {SOLANA_SUCCESS, SOLANA_ERROR_INVALID_STATE}
       THEN /\ impl' = [impl EXCEPT !.ws_reconnects =
                                      (@ + 1) % (UINT64_MAX + 1)]
            /\ EnterSolanaTransition(t, sol[t], SOLANA_STATE_CONNECTING,
                                     "cn_connecting")
       ELSE /\ sol' = [sol EXCEPT ![t].out = sol[t].result]
            /\ pc' = [pc EXCEPT ![t] = "idle"]
            /\ UNCHANGED impl
  /\ UNCHANGED <<solana_tracker, notComm>>

(***************************************************************************)
(* The DefaultStrategy (default_strategy.c) over malloc and free.  Its     *)
(* calls into the ledger and the tracker run the steps above.              *)
(***************************************************************************)
MEMORY_STATS_SUCCESS == 0
MEMORY_STATS_ERROR == 1

\* Sizes the clients ask for: rejected (zero), accepted, rejected (too large).
DefaultSizes == {0, 16, SIZE_MAX}

DefaultLocals0 ==
  [ size |-> 0, ptr |-> NULL, cur |-> 0, old_peak |-> 0,
    \* For the properties: the call deallocates a pointer no client holds;
    \* the call started when the status was already ERROR.
    foreign |-> FALSE, afterError |-> FALSE ]

\* Mutant: validate_size without the test for zero.
default_validate_size_ZeroAllowed(size) == size <= SIZE_MAX \div 4

\* default_strategy.c has its own validate_size.
default_validate_size(size) == size > 0 /\ size <= SIZE_MAX \div 4

is_valid_allocation_size(current_total, new_size) ==
  IF ~default_validate_size(new_size) THEN FALSE
  ELSE IF current_total > SIZE_MAX - new_size THEN FALSE
  ELSE IF current_total + new_size > SIZE_MAX \div 4 THEN FALSE
  ELSE TRUE

\* memory_stats_get_allocation_size (stats, ptr, &size) has no definition in
\* the sources; it is the lookup of the recorded size that the specification
\* describes: the size of the valid record of ptr, if there is one.
memory_stats_get_allocation_size(slots, ptr) ==
  IF \E i \in SlotIds : slots[i].valid = 1 /\ slots[i].address = ptr
  THEN LET i == CHOOSE j \in SlotIds :
                  /\ slots[j].valid = 1 /\ slots[j].address = ptr
                  /\ \A k \in SlotIds :
                       (slots[k].valid = 1 /\ slots[k].address = ptr)
                         => j <= k
       IN [status |-> MEMORY_STATS_SUCCESS, size |-> slots[i].size]
  ELSE [status |-> MEMORY_STATS_ERROR, size |-> 0]

\* default_allocate (base, size): validate_strategy_base.
DaCall(t) ==
  /\ pc[t] = "idle"
  /\ ~released
  /\ calls < MaxDefaultCalls
  /\ calls' = calls + 1
  /\ \E size \in DefaultSizes :
       dl' = [dl EXCEPT ![t] = [DefaultLocals0 EXCEPT
                !.size = size,
                !.afterError = (current_status = STRATEGY_STATE_ERROR)]]
  /\ Goto(t, "da_usage_inc")
  /\ UNCHANGED <<clientVars, defaultCounters, defaultFlags, notDefault>>

\* Sizes at the ceiling of is_valid_allocation_size: rejected (zero), the
\* largest size accepted, the smallest size rejected.
QuotaSizes == {0, SIZE_MAX \div 4, SIZE_MAX \div 4 + 1}

\* default_allocate (base, size) with a size at the ceiling.
QuotaAllocCall(t) ==
  /\ pc[t] = "idle"
  /\ ~released
  /\ calls < MaxDefaultCalls
  /\ calls' = calls + 1
  /\ \E size \in QuotaSizes :
       dl' = [dl EXCEPT ![t] = [DefaultLocals0 EXCEPT
                !.size = size,
                !.afterError = (current_status = STRATEGY_STATE_ERROR)]]
  /\ Goto(t, "da_usage_inc")
  /\ UNCHANGED <<clientVars, defaultCounters, defaultFlags, notDefault>>

\* The fetch_add of usage_count.
DaUsageInc(t) ==
  /\ pc[t] = "da_usage_inc"
  /\ usage_count' = (usage_count + 1) % CountModulus
  /\ Goto(t, "da_status")
  /\ UNCHANGED <<calls, clientVars, dl, total_allocated, total_freed,
                 peak_usage, defaultFlags, notDefault>>

\* check_strategy_status.
DaStatus(t) ==
  /\ pc[t] = "da_status"
  /\ IF current_status # STRATEGY_STATE_ACTIVE
     THEN Goto(t, "da_usage_dec")
     ELSE Goto(t, "da_total_load")
  /\ UNCHANGED <<calls, clientVars, dl, defaultCounters, defaultFlags,
                 notDefault>>

\* The load of total_allocated ...
DaTotalLoad(t) ==
  /\ pc[t] = "da_total_load"
  /\ dl' = [dl EXCEPT ![t].cur = total_allocated]
  /\ Goto(t, "da_freed_load")
  /\ UNCHANGED <<calls, clientVars, defaultCounters, defaultFlags,
                 notDefault>>

\* ... the load of total_freed, the difference, is_valid_allocation_size.
DaFreedLoad(t) ==
  /\ pc[t] = "da_freed_load"
  /\ LET current_total ==
           (dl[t].cur - total_freed + SizeModulus) % SizeModulus IN
     /\ dl' = [dl EXCEPT ![t].cur = current_total]
     /\ IF is_valid_allocation_size(current_total, dl[t].size)
        THEN Goto(t, "da_malloc")
        ELSE Goto(t, "da_usage_dec")
  /\ UNCHANGED <<calls, clientVars, defaultCounters, defaultFlags,
                 notDefault>>

\* perform_allocation: malloc fails with ENOMEM and the status goes to ERROR,
\* or it returns a pointer and memory_stats_update_allocation records it.
\* malloc is a first-fit allocator: it returns the lowest free address.
DaMalloc(t) ==
  /\ pc[t] = "da_malloc"
  /\ \/ /\ EnterTransition(t, STRATEGY_STATE_ERROR, "da_usage_dec")
        /\ UNCHANGED <<heap, dl, sl>>
     \/ \E p \in Ptrs \ heap :
          /\ \A q \in Ptrs \ heap : p <= q
          /\ heap' = heap \cup {p}
          /\ dl' = [dl EXCEPT ![t].ptr = p]
          /\ EnterUpdateAllocation(t, p, dl[t].size, "da_total_add")
          /\ UNCHANGED tl
  /\ UNCHANGED <<calls, own, hist, defaultCounters, defaultFlags,
                 trackerVars, statsVars, poolVars>>
  /\ UNCHANGED moreVars

\* update_allocation_stats: the fetch_add of total_allocated.
DaTotalAdd(t) ==
  /\ pc[t] = "da_total_add"
  /\ total_allocated' = (total_allocated + dl[t].size) % SizeModulus
  /\ sl' = [sl EXCEPT ![t] = StatsLocals0]
  /\ Goto(t, "da_peak_load")
  /\ UNCHANGED <<calls, clientVars, dl, total_freed, peak_usage, usage_count,
                 defaultFlags, tl, trackerVars, statsVars, poolVars>>
  /\ UNCHANGED moreVars

\* update_peak_usage: load peak_usage and compare.
DaPeakLoad(t) ==
  /\ pc[t] = "da_peak_load"
  /\ IF (dl[t].cur + dl[t].size) % SizeModulus > peak_usage
     THEN /\ dl' = [dl EXCEPT ![t].old_peak = peak_usage]
          /\ Goto(t, "da_peak_cas")
     ELSE /\ UNCHANGED dl
          /\ Goto(t, "da_usage_dec")
  /\ UNCHANGED <<calls, clientVars, defaultCounters, defaultFlags,
                 notDefault>>

\* update_peak_usage with a plain store in place of the compare-and-swap.
DaPeakCas_PlainStore(t) ==
  /\ pc[t] = "da_peak_cas"
  /\ peak_usage' = (dl[t].cur + dl[t].size) % SizeModulus
  /\ dl' = [dl EXCEPT ![t].old_peak = 0]
  /\ Goto(t, "da_usage_dec")
  /\ UNCHANGED <<calls, clientVars, total_allocated, total_freed,
                 usage_count, defaultFlags, notDefault>>

\* update_peak_usage: one compare-and-swap, not retried.
DaPeakCas(t) ==
  /\ pc[t] = "da_peak_cas"
  /\ peak_usage' = IF peak_usage = dl[t].old_peak
                   THEN (dl[t].cur + dl[t].size) % SizeModulus
                   ELSE peak_usage
  /\ dl' = [dl EXCEPT ![t].old_peak = 0]
  /\ Goto(t, "da_usage_dec")
  /\ UNCHANGED <<calls, clientVars, total_allocated, total_freed,
                 usage_count, defaultFlags, notDefault>>

\* Mutant: default_allocate returns without its fetch_sub of usage_count.
DaUsageDec_NoSub(t) ==
  /\ pc[t] = "da_usage_dec"
  /\ usage_count' = usage_count
  /\ IF dl[t].ptr # NULL
     THEN /\ own' = [own EXCEPT ![t] = @ \cup {dl[t].ptr}]
          /\ hist' = [hist EXCEPT !.allocs = @ + 1]
     ELSE UNCHANGED <<own, hist>>
  /\ dl' = [dl EXCEPT ![t] = DefaultLocals0]
  /\ tl' = [tl EXCEPT ![t] = TrackerLocals0]
  /\ Goto(t, "idle")
  /\ UNCHANGED <<calls, heap, total_allocated, total_freed, peak_usage,
                 defaultFlags, sl, trackerVars, statsVars, poolVars>>
  /\ UNCHANGED moreVars

\* The fetch_sub of usage_count; default_allocate returns ptr (or NULL), and
\* the caller holds what it was given.
DaUsageDec(t) ==
  /\ pc[t] = "da_usage_dec"
  /\ usage_count' = (usage_count - 1 + CountModulus) % CountModulus
  /\ IF dl[t].ptr # NULL
     THEN /\ own' = [own EXCEPT ![t] = @ \cup {dl[t].ptr}]
          /\ hist' = [hist EXCEPT !.allocs = @ + 1]
     ELSE UNCHANGED <<own, hist>>
  /\ dl' = [dl EXCEPT ![t] = DefaultLocals0]
  /\ tl' = [tl EXCEPT ![t] = TrackerLocals0]
  /\ Goto(t, "idle")
  /\ UNCHANGED <<calls, heap, total_allocated, total_freed, peak_usage,
                 defaultFlags, sl, trackerVars, statsVars, poolVars>>
  /\ UNCHANGED moreVars

\* default_deallocate (base, ptr): validate_strategy_base and
\* validate_pointer (here: ptr != NULL).
EnterDefaultDeallocate(t, ptr, foreign) ==
  IF ptr # NULL
  THEN /\ dl' = [dl EXCEPT ![t] = [DefaultLocals0 EXCEPT
                   !.ptr = ptr, !.foreign = foreign]]
       /\ Goto(t, "dd_usage_inc")
  ELSE /\ dl' = [dl EXCEPT ![t] = DefaultLocals0]
       /\ UNCHANGED <<pc, ret>>

\* A client deallocates a pointer it holds.
DdCallHeld(t) ==
  /\ pc[t] = "idle"
  /\ ~released
  /\ calls < MaxDefaultCalls
  /\ calls' = calls + 1
  /\ \E p \in own[t] :
       /\ own' = [own EXCEPT ![t] = @ \ {p}]
       /\ EnterDefaultDeallocate(t, p, FALSE)
  /\ UNCHANGED <<heap, hist, defaultCounters, defaultFlags, notDefault>>

\* A client deallocates a pointer no client holds: one deallocated before (or
\* being deallocated), one never allocated through the strategy, or NULL.
DdCallOther(t) ==
  /\ pc[t] = "idle"
  /\ ~released
  /\ calls < MaxDefaultCalls
  /\ calls' = calls + 1
  /\ \E p \in (Ptrs \ UNION {own[u] : u \in DefaultThreads}) \cup {NULL} :
       EnterDefaultDeallocate(t, p, TRUE)
  /\ hist' = [hist EXCEPT !.foreign = TRUE]
  /\ UNCHANGED <<heap, own, defaultCounters, defaultFlags, notDefault>>

\* The fetch_add of usage_count.
DdUsageInc(t) ==
  /\ pc[t] = "dd_usage_inc"
  /\ usage_count' = (usage_count + 1) % CountModulus
  /\ Goto(t, "dd_status")
  /\ UNCHANGED <<calls, clientVars, dl, total_allocated, total_freed,
                 peak_usage, defaultFlags, notDefault>>

\* get_current_status: a deallocate is dropped when the status is ERROR.
DdStatus(t) ==
  /\ pc[t] = "dd_status"
  /\ IF current_status = STRATEGY_STATE_ERROR
     THEN Goto(t, "dd_usage_dec")
     ELSE Goto(t, "dd_get_size")
  /\ UNCHANGED <<calls, clientVars, dl, defaultCounters, defaultFlags,
                 notDefault>>

\* handle_deallocation: memory_stats_get_allocation_size; without a record
\* memory_stats_update_deallocation follows at once.
DdGetSize(t) ==
  /\ pc[t] = "dd_get_size"
  /\ LET r == memory_stats_get_allocation_size(active_allocations,
                                               dl[t].ptr) IN
     IF r.status = MEMORY_STATS_SUCCESS
     THEN /\ dl' = [dl EXCEPT ![t].size = r.size]
          /\ Goto(t, "dd_freed_add")
          /\ UNCHANGED sl
     ELSE /\ EnterUpdateDeallocation(t, dl[t].ptr, "dd_free")
          /\ UNCHANGED dl
  /\ UNCHANGED <<calls, clientVars, defaultCounters, defaultFlags, tl,
                 trackerVars, statsVars, poolVars>>
  /\ UNCHANGED moreVars

\* The fetch_add of total_freed, then memory_stats_update_deallocation.
DdFreedAdd(t) ==
  /\ pc[t] = "dd_freed_add"
  /\ total_freed' = (total_freed + dl[t].size) % SizeModulus
  /\ EnterUpdateDeallocation(t, dl[t].ptr, "dd_free")
  /\ UNCHANGED <<calls, clientVars, dl, total_allocated, peak_usage,
                 usage_count, defaultFlags, tl, trackerVars, statsVars,
                 poolVars>>
  /\ UNCHANGED moreVars

\* free (ptr), whether or not a record was found.
DdFree(t) ==
  /\ pc[t] = "dd_free"
  /\ IF dl[t].ptr \in heap
     THEN /\ heap' = heap \ {dl[t].ptr}
          /\ UNCHANGED invalid_free
     ELSE /\ invalid_free' = TRUE
          /\ UNCHANGED heap
  /\ sl' = [sl EXCEPT ![t] = StatsLocals0]
  /\ Goto(t, "dd_usage_dec")
  /\ UNCHANGED <<calls, own, hist, dl, defaultCounters, destroying, released,
                 leak_reported, use_after_release, tl, trackerVars, statsVars,
                 poolVars>>
  /\ UNCHANGED moreVars

\* The fetch_sub of usage_count; default_deallocate returns.
DdUsageDec(t) ==
  /\ pc[t] = "dd_usage_dec"
  /\ usage_count' = (usage_count - 1 + CountModulus) % CountModulus
  /\ dl' = [dl EXCEPT ![t] = DefaultLocals0]
  /\ Goto(t, "idle")
  /\ UNCHANGED <<calls, clientVars, total_allocated, total_freed, peak_usage,
                 defaultFlags, notDefault>>

\* destroy_default_strategy (strategy): transition_status (..., ERROR).
DestroyCall(t) ==
  /\ pc[t] = "idle"
  /\ ~destroying
  /\ calls < MaxDefaultCalls
  /\ calls' = calls + 1
  /\ destroying' = TRUE
  /\ EnterTransition(t, STRATEGY_STATE_ERROR, "ds_wait")
  /\ UNCHANGED <<clientVars, dl, defaultCounters, released,
                 leak_reported, invalid_free, use_after_release, sl,
                 trackerVars, statsVars, poolVars>>
  /\ UNCHANGED moreVars

\* The drain loop: it is left when a load of usage_count returns 0 (until
\* then each round sleeps and loads again).
DsWait(t) ==
  /\ pc[t] = "ds_wait"
  /\ usage_count = 0
  /\ Goto(t, "ds_release")
  /\ UNCHANGED <<calls, clientVars, dl, defaultCounters, defaultFlags,
                 notDefault>>

\* check_and_report_leaks, cleanup_memory_stats (memory_stats_reset and
\* free), explicit_bzero of the strategy and free.  An operation of another
\* thread that is still running from here on reads and writes freed memory:
\* the model records that and ends the operation.
DsRelease(t) ==
  /\ pc[t] = "ds_release"
  /\ leak_reported' = (total_allocated > total_freed)
  /\ released' = TRUE
  /\ use_after_release' = \E u \in DefaultThreads : u # t /\ pc[u] # "idle"
  /\ pc' = [u \in Threads |-> "idle"]
  /\ ret' = [u \in Threads |-> << >>]
  /\ dl' = [u \in Threads |-> DefaultLocals0]
  /\ sl' = [u \in Threads |-> StatsLocals0]
  /\ tl' = [u \in Threads |-> TrackerLocals0]
  /\ alloc_count' = 0
  /\ free_count' = 0
  /\ current_bytes' = 0
  /\ peak_bytes' = 0
  /\ size_distribution' = [b \in 1 .. STATS_SIZE_BUCKET_COUNT |-> 0]
  /\ active_allocations' = [i \in SlotIds |-> EmptySlot]
  /\ active_allocation_count' = 0
  /\ total_leaked_bytes' = 0
  /\ recent_allocations' = [i \in 0 .. (STATS_PATTERN_HISTORY_SIZE - 1) |-> 0]
  /\ allocation_history_index' = 0
  /\ current_status' = 0
  /\ transition_count' = 0
  /\ error_count' = 0
  /\ total_allocated' = 0
  /\ total_freed' = 0
  /\ peak_usage' = 0
  /\ usage_count' = 0
  /\ UNCHANGED <<calls, clientVars, destroying, invalid_free, poolVars>>
  /\ UNCHANGED moreVars

\* The steps of default_allocate, default_deallocate and
\* destroy_default_strategy of thread t.
DefaultStep(t) ==
  \/ DaUsageInc(t) \/ DaStatus(t) \/ DaTotalLoad(t) \/ DaFreedLoad(t)
  \/ DaMalloc(t) \/ DaTotalAdd(t) \/ DaPeakLoad(t) \/ DaPeakCas(t)
  \/ DaUsageDec(t)
  \/ DdUsageInc(t) \/ DdStatus(t) \/ DdGetSize(t) \/ DdFreedAdd(t)
  \/ DdFree(t) \/ DdUsageDec(t)
  \/ DsWait(t) \/ DsRelease(t)

\* The steps of transition_status of thread t.
TrackerStep(t) == TsLoad(t) \/ TsCas(t) \/ TcLoad(t) \/ TcCas(t)

\* create_default_strategy.
InitDefault ==
  /\ dl = [t \in Threads |-> DefaultLocals0]
  /\ total_allocated = 0
  /\ total_freed = 0
  /\ peak_usage = 0
  /\ usage_count = 0
  /\ destroying = FALSE
  /\ released = FALSE
  /\ leak_reported = FALSE
  /\ invalid_free = FALSE
  /\ use_after_release = FALSE

\* memory_stats_init.
InitStats ==
  /\ alloc_count = 0
  /\ free_count = 0
  /\ current_bytes = 0
  /\ peak_bytes = 0
  /\ size_distribution = [b \in 1 .. STATS_SIZE_BUCKET_COUNT |-> 0]
  /\ active_allocations = [i \in SlotIds |-> EmptySlot]
  /\ active_allocation_count = 0
  /\ total_leaked_bytes = 0
  /\ recent_allocations = [i \in 0 .. (STATS_PATTERN_HISTORY_SIZE - 1) |-> 0]
  /\ allocation_history_index = 0

\* The ledger and its clients after STATS_MAX_TRACKED_ALLOCATIONS allocations
\* of 16 bytes were recorded one after the other, pointer p by thread p (by
\* thread 1 beyond the last thread): every slot is valid.
InitStatsFull ==
  /\ alloc_count = STATS_MAX_TRACKED_ALLOCATIONS
  /\ free_count = 0
  /\ current_bytes = 16 * STATS_MAX_TRACKED_ALLOCATIONS
  /\ peak_bytes = 16 * STATS_MAX_TRACKED_ALLOCATIONS
  /\ size_distribution =
       [b \in 1 .. STATS_SIZE_BUCKET_COUNT |->
          IF b = BucketOf(16) THEN STATS_MAX_TRACKED_ALLOCATIONS ELSE 0]
  /\ active_allocations =
       [i \in SlotIds |->
          [address |-> i + 1, size |-> 16, valid |-> 1, in_use |-> 0]]
  /\ active_allocation_count = STATS_MAX_TRACKED_ALLOCATIONS
  /\ total_leaked_bytes = 16 * STATS_MAX_TRACKED_ALLOCATIONS
  /\ recent_allocations =
       [i \in 0 .. (STATS_PATTERN_HISTORY_SIZE - 1) |->
          IF i < STATS_MAX_TRACKED_ALLOCATIONS THEN 16 ELSE 0]
  /\ allocation_history_index = STATS_MAX_TRACKED_ALLOCATIONS

InitClientsFull ==
  /\ heap = 1 .. STATS_MAX_TRACKED_ALLOCATIONS
  /\ own = [t \in Threads |->
              {p \in 1 .. STATS_MAX_TRACKED_ALLOCATIONS :
                 p = t \/ (t = 1 /\ p \notin StatsThreads)}]
  /\ hist = [allocs |-> STATS_MAX_TRACKED_ALLOCATIONS, foreign |-> FALSE,
             changes |-> 0, errors |-> 0]

InitClients ==
  /\ heap = {}
  /\ own = [t \in Threads |-> {}]
  /\ hist = [allocs |-> 0, foreign |-> FALSE, changes |-> 0, errors |-> 0]

\* initialize_status: the tracker after construction.
InitTracker ==
  /\ current_status = STRATEGY_STATE_INITIALIZED
  /\ transition_count = 0
  /\ error_count = 0

InitThreads ==
  /\ pc = [t \in Threads |-> "idle"]
  /\ ret = [t \in Threads |-> << >>]
  /\ tl = [t \in Threads |-> TrackerLocals0]
  /\ sl = [t \in Threads |-> StatsLocals0]
  /\ bl = [t \in Threads |-> BaseLocals0]
  /\ sol = [t \in Threads |-> SolanaLocals0]
  /\ calls = 0

\* initialize_strategy has filled the MemoryStrategy; solana_status_init has
\* run on the connection tracker.
InitMore ==
  /\ component = "any"
  /\ strategy = InitializedStrategy
  /\ solana_tracker = InitializedSolanaTracker
  /\ impl = CreatedImpl

\* initialize_strategy: initialize_status, then the transition to ACTIVE.
InitTrackerActive ==
  /\ current_status = STRATEGY_STATE_ACTIVE
  /\ transition_count = 1
  /\ error_count = 0

Init ==
  /\ InitThreads
  /\ InitMore
  /\ InitClients
  /\ InitTracker
  /\ InitStats
  /\ InitPool
  /\ InitDefault

\* The state after create_pool_strategy or create_default_strategy.
InitActive ==
  /\ InitThreads
  /\ InitMore
  /\ InitClients
  /\ InitTrackerActive
  /\ InitStats
  /\ InitPool
  /\ InitDefault

Next ==
  \E t \in StatusThreads :
    \/ TransitionStatusCall(t)
    \/ TransitionStatusNull(t)
    \/ TsLoad(t)
    \/ TsCas(t)
    \/ TcLoad(t)
    \/ TcCas(t)

Spec == Init /\ [][Next]_vars

\* The ledger used directly by several threads.
NextStats ==
  \E t \in StatsThreads :
    \/ StatsAllocCall(t)
    \/ StatsDeallocCall(t)
    \/ StatsFree(t)
    \/ StatsDeallocUntracked(t)
    \/ StatsGetReport(t)
    \/ StatsStep(t)

SpecStats == Init /\ [][NextStats]_vars

InitFull ==
  /\ InitThreads
  /\ InitMore
  /\ InitClientsFull
  /\ InitTracker
  /\ InitStatsFull
  /\ InitPool
  /\ InitDefault

\* The ledger used by several threads from a full tracking table on.
NextFull ==
  \E t \in StatsThreads :
    \/ StatsAllocFullCall(t)
    \/ StatsAllocCall(t)
    \/ StatsDeallocCall(t)
    \/ StatsFree(t)
    \/ StatsStep(t)

SpecFull == InitFull /\ [][NextFull]_vars

\* A StatusTracker in memory that holds anything (test_initialization
\* declares it on the stack); STRATEGY_MAX_STATE + 1 stands for every value
\* outside the four states.
InitUninitialized ==
  /\ InitThreads
  /\ InitMore
  /\ InitClients
  /\ InitStats
  /\ InitPool
  /\ InitDefault
  /\ current_status \in 0 .. (STRATEGY_MAX_STATE + 1)
  /\ transition_count \in 0 .. UINT64_MAX
  /\ error_count \in 0 .. UINT64_MAX

\* test_fragmentation_handling: one client allocates runs of every length
\* and gives some of them back, in any order.
NextFragment ==
  \E t \in FragmentThreads :
    \/ FragmentAllocCall(t)
    \/ FragmentDeallocCall(t)
    \/ PoolStep(t)

SpecFragment == InitActive /\ [][NextFragment]_vars

\* Threads calling solana_status_transition on one connection tracker.
NextSolana ==
  \E t \in SolanaThreads :
    \/ SolanaTransitionCall(t)
    \/ SolLoad(t)
    \/ SolCheck(t)
    \/ SolCas(t)
    \/ SolCasFailed(t)
    \/ SolCount(t)
    \/ SolError(t)

SpecSolana == InitActive /\ [][NextSolana]_vars

\* Clients connecting, disconnecting and reconnecting the strategy
\* solana_comm_create has returned.
NextComm ==
  \E t \in CommThreads :
    \/ ConnectCall(t)
    \/ DisconnectCall(t)
    \/ CnConnecting(t)
    \/ CnHealth(t)
    \/ CnBlockhash(t)
    \/ CnFailed(t)
    \/ CnConnected(t)
    \/ DcDone(t)
    \/ SolLoad(t)
    \/ SolCheck(t)
    \/ SolCas(t)
    \/ SolCasFailed(t)
    \/ SolCount(t)
    \/ SolError(t)

SpecComm == InitActive /\ [][NextComm]_vars

\* Threads setting the tracker up, using it and setting it up again.
NextInitialize ==
  \E t \in StatusThreads :
    \/ InitializeStatusCall(t)
    \/ InitializeStatusNull(t)
    \/ InitNullReturn(t)
    \/ InitStoreStatus(t)
    \/ InitStoreTransitions(t)
    \/ InitStoreErrors(t)
    \/ InitializedTransitionCall(t)
    \/ TrackerStep(t)

SpecInitialize == InitUninitialized /\ [][NextInitialize]_vars

\* Threads allocating and releasing through the strategy of
\* initialize_strategy, tearing it down and setting it up again.
NextBase == \E t \in BaseThreads : BaseStep(t) \/ TrackerStep(t)

SpecBase == InitActive /\ [][NextBase]_vars

\* The validators applied to every MemoryStrategy and every tracker status.
InitValidator ==
  /\ InitThreads
  /\ InitClients
  /\ InitStats
  /\ InitPool
  /\ InitDefault
  /\ component = "any"
  /\ strategy \in Strategies
  /\ solana_tracker = InitializedSolanaTracker
  /\ impl = CreatedImpl
  /\ current_status \in 0 .. STRATEGY_MAX_STATE
  /\ transition_count =
       IF current_status = STRATEGY_STATE_INITIALIZED THEN 0 ELSE 1
  /\ error_count = IF current_status = STRATEGY_STATE_ERROR THEN 1 ELSE 0

NextValidator ==
  \E t \in StatusThreads :
    \/ ValidateStrategyCall(t)
    \/ ValidateAllocationCall(t)
    \/ ValidateDeallocationCall(t)

SpecValidator == InitValidator /\ [][NextValidator]_vars

\* The pool strategy used by several threads.
NextPool ==
  \E t \in PoolThreads :
    \/ PoolAllocCall(t)
    \/ PoolDeallocHeld(t)
    \/ PoolDeallocOther(t)
    \/ PoolUserWrite(t)
    \/ PoolStep(t)

SpecPool == InitActive /\ [][NextPool]_vars

\* The runs in which every call has to return: the threads of a run call
\* into one of the three components.
Components == {"StatusTracker", "MemoryStats", "pool"}

InitLive ==
  /\ InitThreads
  /\ component \in Components
  /\ strategy = InitializedStrategy
  /\ solana_tracker = InitializedSolanaTracker
  /\ impl = CreatedImpl
  /\ InitClients
  /\ InitTrackerActive
  /\ InitStats
  /\ InitPool
  /\ InitDefault

\* transition_status.
LiveTransitionCall(t) ==
  /\ component = "StatusTracker"
  /\ calls < MaxLiveCalls
  /\ TransitionStatusCall(t)

\* memory_stats_update_allocation of the lowest free address, of the first
\* size.
LiveStatsAllocCall(t) ==
  /\ component = "MemoryStats"
  /\ calls < MaxLiveStatsCalls
  /\ StatsAllocCall(t)
  /\ \A p \in Ptrs \ heap : sl'[t].ptr <= p
  /\ \A size \in AllocSizes : sl'[t].size <= size

\* memory_stats_update_deallocation.
LiveStatsDeallocCall(t) ==
  /\ component = "MemoryStats"
  /\ calls < MaxLiveStatsCalls
  /\ StatsDeallocCall(t)

\* pool_allocate of SMALL_ALLOC_SIZE bytes or of more than the arena holds.
LivePoolAllocCall(t) ==
  /\ component = "pool"
  /\ calls < MaxLiveCalls
  /\ PoolAllocCall(t)
  /\ pl'[t].size \in {SMALL_ALLOC_SIZE, PoolCapacity + 1}

\* pool_deallocate.
LivePoolDeallocCall(t) ==
  /\ component = "pool"
  /\ calls < MaxLiveCalls
  /\ PoolDeallocHeld(t)

\* A step of a call of thread t that is under way (free after the ledger
\* update included).
LiveStep(t) ==
  TrackerStep(t) \/ StatsStep(t) \/ StatsFree(t) \/ PoolStep(t)

NextLive ==
  \E t \in LiveThreads :
    \/ LiveTransitionCall(t)
    \/ LiveStatsAllocCall(t)
    \/ LiveStatsDeallocCall(t)
    \/ LivePoolAllocCall(t)
    \/ LivePoolDeallocCall(t)
    \/ LiveStep(t)

\* The scheduler runs every thread that has a step to take again and again;
\* nothing is assumed about the order of the threads or about the outcome of
\* a weak compare-and-swap.
SpecLive ==
  /\ InitLive
  /\ [][NextLive]_vars
  /\ \A t \in LiveThreads : WF_vars(LiveStep(t))

\* test_thread_safety: NUM_THREADS threads allocate SMALL_ALLOC_SIZE bytes from
\* one pool and give the blocks back.
NextThrottle ==
  \E t \in ThrottleThreads :
    \/ ThrottleAllocCall(t)
    \/ ThrottleDeallocCall(t)
    \/ PoolStep(t)

SpecThrottle == InitActive /\ [][NextThrottle]_vars

\* The pool after thread 1 has allocated SMALL_ALLOC_SIZE bytes from the
\* fresh pool: it holds block 0.
InitHolding ==
  /\ InitThreads
  /\ InitMore
  /\ InitTrackerActive
  /\ InitStats
  /\ InitDefault
  /\ heap = {}
  /\ own = [t \in Threads |-> {}]
  /\ hist = [allocs |-> 1, foreign |-> FALSE, changes |-> 0, errors |-> 0]
  /\ pl = [t \in Threads |-> PoolLocals0]
  /\ held = [t \in Threads |->
              IF t = 1 THEN {[id |-> 1, start |-> 0, num |-> 1]} ELSE {}]
  /\ block_bitmap = [w \in 0 .. (BitmapWords - 1) |->
                      IF w = 0 THEN {0} ELSE {}]
  /\ pool_memory = [b \in Blocks |-> IF b = 0 THEN 1 ELSE 0]
  /\ block_data = [b \in Blocks |-> 0]
  /\ blocks_used = 1
  /\ total_allocations = 1
  /\ failed_allocations = 0
  /\ concurrent_ops = 0

\* test_thread_safety from the moment on at which one thread holds a block.
SpecRelease == InitHolding /\ [][NextThrottle]_vars

\* The DefaultStrategy used by several threads, one of which may destroy it.
NextDefault ==
  \E t \in DefaultThreads :
    \/ DaCall(t)
    \/ DdCallHeld(t)
    \/ DdCallOther(t)
    \/ DestroyCall(t)
    \/ DefaultStep(t)
    \/ StatsStep(t)
    \/ TrackerStep(t)

SpecDefault == InitActive /\ [][NextDefault]_vars

\* The steps of default_allocate and default_deallocate of thread t.
AllocDeallocStep(t) ==
  \/ DaUsageInc(t) \/ DaStatus(t) \/ DaTotalLoad(t) \/ DaFreedLoad(t)
  \/ DaMalloc(t) \/ DaTotalAdd(t) \/ DaPeakLoad(t) \/ DaPeakCas(t)
  \/ DaUsageDec(t)
  \/ DdUsageInc(t) \/ DdStatus(t) \/ DdGetSize(t) \/ DdFreedAdd(t)
  \/ DdFree(t) \/ DdUsageDec(t)

\* A size is_valid_allocation_size rejects and one it accepts.
DrainSizes == {0, 16}

\* Threads using the DefaultStrategy until one of them destroys it; as the
\* callers have to guarantee, no operation is issued once destroy has
\* started.
NextDrain ==
  \E t \in DefaultThreads :
    \/ /\ calls < MaxDrainCalls
       /\ ~destroying
       /\ DaCall(t)
       /\ dl'[t].size \in DrainSizes
    \/ calls < MaxDrainCalls /\ ~destroying /\ DdCallHeld(t)
    \/ calls < MaxDrainCalls /\ DestroyCall(t)
    \/ DefaultStep(t)
    \/ StatsStep(t)
    \/ TrackerStep(t)

\* A step of a call of thread t that is under way.
DrainStep(t) == DefaultStep(t) \/ StatsStep(t) \/ TrackerStep(t)

\* The scheduler runs every thread that has a step to take again and again:
\* the operations in flight finish, and the drain loop loads usage_count
\* again after each usleep.
SpecDrain ==
  /\ InitActive
  /\ [][NextDrain]_vars
  /\ \A t \in DefaultThreads : WF_vars(DrainStep(t))

\* Threads allocating sizes at the ceiling of is_valid_allocation_size and
\* deallocating what they hold.
NextQuota ==
  \E t \in DefaultThreads :
    \/ QuotaAllocCall(t)
    \/ DdCallHeld(t)
    \/ AllocDeallocStep(t)
    \/ StatsStep(t)
    \/ TrackerStep(t)

SpecQuota == InitActive /\ [][NextQuota]_vars

\* The DefaultStrategy after thread 1 has allocated every address of the
\* backend, 16 bytes each, one call after the other.
InitOutstanding ==
  /\ InitThreads
  /\ InitMore
  /\ InitTrackerActive
  /\ InitPool
  /\ heap = Ptrs
  /\ own = [t \in Threads |-> IF t = 1 THEN Ptrs ELSE {}]
  /\ hist = [allocs |-> NumPtrs, foreign |-> FALSE, changes |-> 0,
             errors |-> 0]
  /\ alloc_count = NumPtrs
  /\ free_count = 0
  /\ current_bytes = 16 * NumPtrs
  /\ peak_bytes = 16 * NumPtrs
  /\ size_distribution =
       [b \in 1 .. STATS_SIZE_BUCKET_COUNT |-> IF b = 1 THEN NumPtrs ELSE 0]
  /\ active_allocations =
       [i \in SlotIds |->
          IF i < NumPtrs
          THEN [address |-> i + 1, size |-> 16, valid |-> 1, in_use |-> 0]
          ELSE EmptySlot]
  /\ active_allocation_count = Min(NumPtrs, STATS_MAX_TRACKED_ALLOCATIONS)
  /\ total_leaked_bytes = 16 * Min(NumPtrs, STATS_MAX_TRACKED_ALLOCATIONS)
  /\ recent_allocations =
       [i \in 0 .. (STATS_PATTERN_HISTORY_SIZE - 1) |-> 16]
  /\ allocation_history_index = NumPtrs % CountModulus
  /\ dl = [t \in Threads |-> DefaultLocals0]
  /\ total_allocated = 16 * NumPtrs
  /\ total_freed = 0
  /\ peak_usage = 16 * NumPtrs
  /\ usage_count = 0
  /\ destroying = FALSE
  /\ released = FALSE
  /\ leak_reported = FALSE
  /\ invalid_free = FALSE
  /\ use_after_release = FALSE

\* The DefaultStrategy used by several threads, from creation on or from
\* the state with every address allocated on.
InitLeak == InitActive \/ InitOutstanding

SpecLeak == InitLeak /\ [][NextDefault]_vars

(***************************************************************************)
(* Properties of the MemoryStats ledger.                                   *)
(***************************************************************************)
StatsQuiescent == \A t \in StatsThreads : pc[t] = "idle"

\* C3: once every call has returned, with N allocations of distinct pointers
\* recorded concurrently and each followed by its matching deallocation (and
\* no other deallocation issued), alloc_count = free_count = N,
\* current_bytes = 0 and total_leaked_bytes = 0.
C3_NoLostCounts ==
  ( /\ StatsQuiescent
    /\ \A t \in StatsThreads : own[t] = {}
    /\ ~hist.foreign )
  => ( /\ alloc_count = hist.allocs
       /\ free_count = hist.allocs
       /\ current_bytes = 0
       /\ total_leaked_bytes = 0 )

ValidSlots == {i \in SlotIds : active_allocations[i].valid = 1}

StatsOutstanding == UNION {own[t] : t \in StatsThreads}

\* C14: whenever no MemoryStats operation is in flight (and only recorded
\* pointers were deallocated), active_allocation_count is the number of slots
\* with valid = 1, and every valid slot holds the address and a recorded size
\* of an allocation that is still outstanding, no two slots the same one.
SlotsMatchOutstanding ==
  /\ active_allocation_count = Cardinality(ValidSlots)
  /\ active_allocation_count <= STATS_MAX_TRACKED_ALLOCATIONS
  /\ \A i \in ValidSlots :
       /\ active_allocations[i].address \in StatsOutstanding
       /\ active_allocations[i].size \in AllocSizes
  /\ \A i, j \in ValidSlots :
       active_allocations[i].address = active_allocations[j].address
         => i = j

C14_ValidSlotsAreOutstanding ==
  (StatsQuiescent /\ ~hist.foreign) => SlotsMatchOutstanding

\* Calls of memory_stats_update_allocation that have not yet added to
\* alloc_count.
AllocCountPending ==
  {t \in StatsThreads : /\ pc[t] \in {"uc_load", "uc_cas", "uc_add"}
                        /\ sl[t].counter = "alloc_count"}

\* C17: alloc_count is the number of memory_stats_update_allocation calls
\* (non-null stats and pointer) that have passed their counter update, hence
\* the number of completed calls once all have returned, in every
\* interleaving, with or without a free slot, and also when the retries were
\* exhausted and the fallback addition applied the increment.
C17_AllocCountExact ==
  alloc_count + Cardinality(AllocCountPending) = hist.allocs

\* C17 witness: a call has exhausted its MAX_COUNTER_RETRIES attempts on
\* alloc_count and stands at the fallback addition.
C17_Witness ==
  \E t \in StatsThreads :
    /\ pc[t] = "uc_add"
    /\ sl[t].counter = "alloc_count"
    /\ alloc_count >= MAX_COUNTER_RETRIES

AllocBytesLoop ==
  {"ua_bytes_load", "ua_peak_load", "ua_peak_store", "ua_bytes_cas"}

DeallocBytesLoop == {"ud_bytes_load", "ud_bytes_cas"}

\* C18: every memory_stats_update_allocation (ptr, size) adds exactly size to
\* current_bytes and every deallocation of a tracked pointer subtracts exactly
\* its recorded size, in every interleaving: a call leaves its byte-total
\* loop only by the step that applies its update, also when the bounded
\* retries are exhausted.
C18_ByteUpdatesApplied ==
  [][\A t \in StatsThreads :
       /\ (pc[t] \in AllocBytesLoop /\ pc'[t] \notin AllocBytesLoop)
            => current_bytes' = (current_bytes + sl[t].size) % SizeModulus
       /\ (pc[t] \in DeallocBytesLoop /\ pc'[t] \notin DeallocBytesLoop)
            => current_bytes' = current_bytes - sl[t].size
    ]_vars

\* C16: a memory_stats_get_report taken after any sequence of recorded
\* allocations and deallocations (nothing in flight, the valid slots being
\* the records of outstanding allocations) returns leak_count =
\* min (active_allocation_count, STATS_MAX_LEAK_REPORTS) leak entries, each a
\* copy of a slot that is valid at that time and so carries the address and
\* size of an allocation that is still outstanding.
C16_ReportListsValidSlots ==
  [][\A t \in StatsThreads :
       (StatsGetReport(t) /\ StatsQuiescent /\ SlotsMatchOutstanding)
       => LET r == sl'[t].report IN
          /\ r.leak_count = Min(active_allocation_count,
                                STATS_MAX_LEAK_REPORTS)
          /\ Len(r.leaks) = r.leak_count
          /\ \A k \in 1 .. Len(r.leaks) :
               /\ \E i \in ValidSlots :
                    /\ r.leaks[k].address = active_allocations[i].address
                    /\ r.leaks[k].size = active_allocations[i].size
               /\ r.leaks[k].address \in StatsOutstanding
    ]_vars

UpdateAllocationLabels ==
  {"uc_load", "uc_cas", "uc_add"} \cup AllocBytesLoop
    \cup {"ua_slot_valid", "ua_analysis", "ua_history"}

\* C15: a step of memory_stats_update_allocation taken while every slot is
\* valid (the call holding no slot and not having seen a free one) claims no
\* slot and leaves active_allocation_count, total_leaked_bytes and the slots
\* unchanged, and the call still adds 1 to alloc_count, size to
\* current_bytes, 1 to one size bucket and its entry to the history ring.
C15_FullTableStillCounts ==
  [][\A t \in StatsThreads :
       ( /\ AllSlotsValid
         /\ pc[t] \in UpdateAllocationLabels
         /\ sl[t].counter # "free_count"
         /\ sl[t].slot = -1
         /\ pc'[t] # pc[t] \/ sl'[t] # sl[t] )
       => ( /\ active_allocations' = active_allocations
            /\ active_allocation_count' = active_allocation_count
            /\ total_leaked_bytes' = total_leaked_bytes
            /\ pc'[t] \notin {"ua_slot_cas", "ua_w_addr"}
            /\ (pc[t] \in {"uc_cas", "uc_add"} /\ pc'[t] = "ua_bytes_load")
                 => alloc_count' = (alloc_count + 1) % SizeModulus
            /\ (pc[t] \in AllocBytesLoop /\ pc'[t] \notin AllocBytesLoop)
                 => current_bytes' = (current_bytes + sl[t].size) % SizeModulus
            /\ pc[t] = "ua_analysis"
                 => /\ size_distribution' =
                         [size_distribution EXCEPT
                            ![BucketOf(sl[t].size)] = (@ + 1) % SizeModulus]
                    /\ allocation_history_index' =
                         (allocation_history_index + 1) % CountModulus
            /\ pc[t] = "ua_history"
                 => recent_allocations'[sl[t].i] = sl[t].size )
    ]_vars

(***************************************************************************)
(* Properties of initialize_status.                                        *)
(***************************************************************************)
\* C29: when initialize_status returns for a tracker, current_status is
\* INITIALIZED and both counters are 0, whatever the tracker held before, and
\* the result is STRATEGY_SUCCESS; initialize_status (NULL) returns
\* STRATEGY_NULL_POINTER and changes nothing.
C29_InitializeResets ==
  [][\A t \in StatusThreads :
       /\ (pc[t] = "init_errors" /\ pc'[t] = "idle")
          => ( /\ current_status' = STRATEGY_STATE_INITIALIZED
               /\ transition_count' = 0
               /\ error_count' = 0
               /\ tl'[t].result = STRATEGY_SUCCESS )
       /\ (pc'[t] = "init_null" /\ pc[t] = "idle")
          => trackerVars' = trackerVars
       /\ (pc[t] = "init_null" /\ pc'[t] = "idle")
          => ( /\ tl'[t].result = STRATEGY_NULL_POINTER
               /\ trackerVars' = trackerVars )]_vars

\* initialize_status is about to store its last 0 into a tracker whose
\* error_count holds something else.
C29_Witness ==
  \E t \in StatusThreads :
    /\ pc[t] = "init_errors"
    /\ error_count # 0
    /\ current_status = STRATEGY_STATE_INITIALIZED
    /\ transition_count = 0

(***************************************************************************)
(* Properties of the connection tracker.                                   *)
(***************************************************************************)
\* The transition thread t asked for is forbidden from the status it loaded.
SolanaForbidden(t) ==
  /\ pc[t] = "sol_check"
  /\ ~SolanaEdge(sol[t].current, sol[t].new_status)

\* Every change of the connection tracker's current_status follows an edge
\* marked 1 in status_transitions.
SolanaAlongEdges ==
  solana_tracker'.current_status # solana_tracker.current_status
    => SolanaEdge(solana_tracker.current_status,
                  solana_tracker'.current_status)

\* C30: solana_status_transition changes current_status only along an edge
\* marked 1 in status_transitions; a forbidden transition returns
\* SOLANA_ERROR_INVALID_STATE and leaves current_status and transition_count
\* unchanged while it adds 1 to error_count, whatever the other callers do.
C30_ForbiddenIsCounted ==
  [][/\ SolanaAlongEdges
     /\ \A t \in SolanaThreads :
          /\ (pc[t] \in {"idle", "sol_load"} /\ pc'[t] # pc[t])
             => solana_tracker' = solana_tracker
          /\ (SolanaForbidden(t) /\ pc'[t] # pc[t])
             => ( /\ pc'[t] = "idle"
                  /\ sol'[t].result = SOLANA_ERROR_INVALID_STATE
                  /\ solana_tracker' = SolanaFetchAdd("error_count") )]_vars

\* C30 as stated: a forbidden transition returns SOLANA_ERROR_INVALID_STATE
\* and leaves current_status, transition_count and error_count unchanged.
C30_ForbiddenLeavesCounters ==
  [][/\ SolanaAlongEdges
     /\ \A t \in SolanaThreads :
          (SolanaForbidden(t) /\ pc'[t] # pc[t])
            => ( /\ pc'[t] = "idle"
                 /\ sol'[t].result = SOLANA_ERROR_INVALID_STATE
                 /\ solana_tracker' = solana_tracker )]_vars

\* A caller is about to be turned down for a transition that is forbidden
\* from the status it loaded, after another caller has since moved
\* current_status and is still inside its call.
C30_Witness ==
  \E t, u \in SolanaThreads :
    /\ t # u
    /\ SolanaForbidden(t)
    /\ pc[u] = "sol_count"
    /\ solana_tracker.current_status # sol[t].current

(***************************************************************************)
(* Properties of find_contiguous_blocks.                                   *)
(***************************************************************************)
\* The start blocks of the runs of n free blocks in a bitmap.
FreeRuns(bitmap, n) ==
  {b \in Blocks :
     /\ b + n <= POOL_BLOCK_COUNT
     /\ \A c \in Run(b, n) : ~is_block_used(bitmap, c)}

Lowest(S) == CHOOSE b \in S : \A c \in S : b <= c

\* C31: find_contiguous_blocks returns the lowest start of a run of
\* blocks_needed free blocks and fails exactly when the bitmap has no such
\* run; the allocation that found a run succeeds and returns the pointer of
\* that run, so an allocation that fits in a freed gap reuses the lowest one.
C31_FirstFit ==
  [][\A t \in FragmentThreads :
       /\ (pc[t] = "pa_scan" /\ pc'[t] # "pa_scan")
          => LET runs == FreeRuns(block_bitmap, pl[t].num) IN
             IF runs = {}
             THEN pc'[t] = "pa_fail_dec"
             ELSE /\ pc'[t] \in {"mb_load", "pa_blocks_load"}
                  /\ pl'[t].start = Lowest(runs)
       /\ (pc[t] = "pa_blocks_load" /\ pc'[t] # pc[t])
          => pc'[t] = "pa_blocks_add"
       /\ (pc[t] = "pa_done" /\ pc'[t] # pc[t])
          => pl'[t].result = UserPtr(pl[t].start)]_vars

\* An allocation has found the gap that a deallocation left between two
\* blocks that are still in use.
C31_Witness ==
  \E t \in FragmentThreads :
    /\ pc[t] = "pa_header"
    /\ pl[t].start > 0
    /\ hist.allocs >= 3
    /\ \A b \in Blocks : is_block_used(block_bitmap, b)

(***************************************************************************)
(* Properties of the in_use marker of the ledger's slots.                  *)
(***************************************************************************)
\* Where a call is between its successful compare-and-swap of in_use and its
\* store of 0 to in_use.
SlotHeldAt ==
  { "ua_w_addr", "ua_w_size", "ua_w_valid", "ua_w_count", "ua_w_leaked",
    "ua_w_release", "ud_size", "ud_clr_valid", "ud_clr_addr", "ud_clr_size",
    "ud_dec_count", "ud_sub_leaked", "ud_release" }

\* The calls that hold slot i.
SlotHolders(i) ==
  {t \in StatsThreads : pc[t] \in SlotHeldAt /\ sl[t].slot = i}

\* C33: in_use of a slot is 1 exactly while one call is between its
\* successful compare-and-swap on that slot and its release of it: no two
\* calls hold the same slot, and with no call in flight every in_use is 0.
C33_InUseIsTransient ==
  \A i \in SlotIds :
    /\ Cardinality(SlotHolders(i)) <= 1
    /\ active_allocations[i].in_use = IF SlotHolders(i) = {} THEN 0 ELSE 1

\* One call holds slot 0 while another is at its compare-and-swap on the
\* same slot.
C33_Witness ==
  \E t, u \in StatsThreads :
    /\ t # u
    /\ SlotHolders(0) = {t}
    /\ pc[u] \in {"ua_slot_cas", "ud_cas"}
    /\ sl[u].i = 0

(***************************************************************************)
(* Properties of the ledger's peak_bytes.                                  *)
(***************************************************************************)
\* C36: no step lowers peak_bytes -- not a deallocation and not a concurrent
\* allocation -- and when memory_stats_update_allocation returns, peak_bytes
\* is at least current_bytes.
C36_PeakBytesMonotonic ==
  [][/\ peak_bytes' >= peak_bytes
     /\ \A t \in StatsThreads :
          (pc[t] = "ua_history" /\ pc'[t] # pc[t])
            => peak_bytes' >= current_bytes'
    ]_vars

(***************************************************************************)
(* Termination of the calls.                                               *)
(***************************************************************************)
\* The loop counters of thread t are within the bounds of their loops.
LoopsWithinBounds(t) ==
  /\ tl[t].retry < STRATEGY_MAX_RETRIES
  /\ tl[t].cretry < STRATEGY_MAX_RETRIES
  /\ sl[t].attempt < Max(MAX_COUNTER_RETRIES, MAX_RETRY_ATTEMPTS)
  /\ pl[t].i <= POOL_BLOCK_COUNT
  /\ pl[t].k <= POOL_BLOCK_COUNT

\* C27: no call of transition_status, memory_stats_update_allocation,
\* memory_stats_update_deallocation, pool_allocate or pool_deallocate is held
\* up forever by the other threads: every loop stays within its fixed number
\* of iterations and every call that has started returns.
C27_EveryCallReturns ==
  /\ [](\A t \in LiveThreads : LoopsWithinBounds(t))
  /\ \A t \in LiveThreads : (pc[t] # "idle") ~> (pc[t] = "idle")

\* A transition_status has returned after atomic_increment_with_check used up
\* its retries.
C27_Witness ==
  /\ component = "StatusTracker"
  /\ \E t \in LiveThreads :
       /\ pc[t] = "idle"
       /\ tl[t].changed
       /\ tl[t].result = STRATEGY_ATOMIC_FAILURE

(***************************************************************************)
(* Properties of the pool under the threads of test_thread_safety.         *)
(***************************************************************************)
\* The operations that have passed the throttle and not yet subtracted
\* themselves from concurrent_ops.
ThrottleInside ==
  {t \in ThrottleThreads :
     pl[t].admitted /\ pc[t] \notin {"idle", "pa_fail_count"}}

\* C25: at most MAX_ALLOCATION_RETRIES operations of the pool are past the
\* admission check at any time; a pool_allocate that arrives with that many
\* in flight is turned away, returns NULL and does not touch the bitmap; and
\* concurrent_ops is 0 whenever no operation of the pool is in flight.
C25_AdmissionThrottle ==
  [][/\ Cardinality(ThrottleInside') <= MAX_ALLOCATION_RETRIES
     /\ \A t \in ThrottleThreads :
          /\ ( /\ pc[t] = "pa_admit"
               /\ pc'[t] # "pa_admit"
               /\ \/ concurrent_ops >= MAX_ALLOCATION_RETRIES
                  \/ Cardinality(ThrottleInside) >= MAX_ALLOCATION_RETRIES )
             => (pc'[t] = "pa_fail_dec" /\ ~pl'[t].admitted)
          /\ ( /\ pc[t] \in {"pa_fail_dec", "pa_fail_count"}
               /\ ~pl[t].admitted
               /\ pc'[t] # pc[t] )
             => ( /\ block_bitmap' = block_bitmap
                  /\ pc'[t] \in {"pa_fail_count", "idle"}
                  /\ pc'[t] = "idle" => pl'[t].result = NULL )
     /\ (\A t \in ThrottleThreads : pc'[t] = "idle")
          => concurrent_ops' = 0]_vars

\* A fourth pool_allocate has been turned away while three operations are
\* past admission.
C25_Witness ==
  /\ Cardinality(ThrottleInside) = MAX_ALLOCATION_RETRIES
  /\ \E t \in ThrottleThreads :
       /\ pc[t] = "pa_fail_dec"
       /\ ~pl[t].admitted

\* C26: with NUM_THREADS threads allocating SMALL_ALLOC_SIZE bytes from a pool
\* that has a free block for each of them, every pool_allocate returns a
\* pointer, validate stays true and the status stays ACTIVE.
C26_ConcurrentAllocationsSucceed ==
  [][/\ \A t \in ThrottleThreads :
          ( /\ pc[t] # "idle"
            /\ pc'[t] = "idle"
            /\ pl[t].size = SMALL_ALLOC_SIZE )
          => pl'[t].result # NULL
     /\ validate_strategy(FALSE, strategy, current_status')
     /\ current_status' = STRATEGY_STATE_ACTIVE]_vars

\* C38: a pool_deallocate of the pointer of an outstanding allocation, made
\* while the strategy is ACTIVE, has cleared the bits of that run and taken
\* its length off blocks_used when it returns, so once every allocation has
\* been deallocated and no call is in flight the bitmap is empty and
\* blocks_used is 0.
C38_DeallocateTakesEffect ==
  [][/\ \A t \in ThrottleThreads :
          ( /\ pc[t] = "pd_dec"
            /\ pc'[t] = "idle"
            /\ pl[t].owned # NoAlloc )
          => ( /\ pl[t].cleared = Run(pl[t].owned.start, pl[t].owned.num)
               /\ pl[t].sub = pl[t].owned.num )
     /\ ( /\ \A t \in ThrottleThreads : pc'[t] = "idle" /\ held'[t] = {}
          /\ current_status' = STRATEGY_STATE_ACTIVE )
          => ( /\ \A b \in Blocks : ~is_block_used(block_bitmap', b)
               /\ blocks_used' = 0 )]_vars

\* A call of client t returns.
CommReturns(t) == pc[t] # "idle" /\ pc'[t] = "idle"

\* C40: a call of the strategy that no other call overlaps with behaves as
\* follows.  connect on a freshly created (INITIALIZED) strategy is in
\* CONNECTING while it asks the RPC node, and ends CONNECTED with
\* SOLANA_SUCCESS when the health and the blockhash call succeed and ERROR
\* when one of them fails; connect while CONNECTED returns
\* SOLANA_ERROR_INVALID_STATE and leaves the status CONNECTED; reconnect from
\* CONNECTED, DISCONNECTED or ERROR with a healthy RPC node ends CONNECTED.
C40_ConnectionLifecycle ==
  [][\A t \in CommThreads :
       LET c == sol'[t]
           status == solana_tracker'.current_status
       IN /\ ( /\ pc'[t] \in {"cn_health", "cn_blockhash"}
               /\ c.alone )
               => status = SOLANA_STATE_CONNECTING
          /\ ( /\ CommReturns(t)
               /\ c.alone
               /\ c.op = "connect"
               /\ ~c.tracker_null
               /\ c.from = SOLANA_STATE_INITIALIZED )
               => /\ c.rpc = "ok"
                       => ( /\ status = SOLANA_STATE_CONNECTED
                            /\ c.out = SOLANA_SUCCESS )
                  /\ c.rpc # "ok"
                       => ( /\ status = SOLANA_STATE_ERROR
                            /\ c.out = SOLANA_ERROR_RPC_FAILED )
          /\ ( /\ CommReturns(t)
               /\ c.alone
               /\ c.op = "connect"
               /\ ~c.tracker_null
               /\ c.from = SOLANA_STATE_CONNECTED )
               => ( /\ c.out = SOLANA_ERROR_INVALID_STATE
                    /\ status = SOLANA_STATE_CONNECTED )
          /\ ( /\ CommReturns(t)
               /\ c.alone
               /\ c.op = "reconnect"
               /\ c.from \in {SOLANA_STATE_CONNECTED,
                               SOLANA_STATE_DISCONNECTED, SOLANA_STATE_ERROR}
               /\ c.rpc = "ok" )
               => ( /\ status = SOLANA_STATE_CONNECTED
                    /\ c.out = SOLANA_SUCCESS )]_vars

\* A reconnect of a strategy that was DISCONNECTED has returned: its
\* impl_disconnect was turned down, the RPC node was healthy, and the
\* strategy is CONNECTED.
C40_Witness ==
  \E t \in CommThreads :
    /\ pc[t] = "idle"
    /\ sol[t].alone
    /\ sol[t].op = "reconnect"
    /\ sol[t].from = SOLANA_STATE_DISCONNECTED
    /\ sol[t].rpc = "ok"
    /\ sol[t].out = SOLANA_SUCCESS
    /\ solana_tracker.current_status = SOLANA_STATE_CONNECTED
    /\ impl.ws_reconnects = 1

(***************************************************************************)
(* Properties of the strategy of initialize_strategy (memory_strategy.c).  *)
(***************************************************************************)
\* Thread t starts a call of the strategy in this step.
BaseCalls(t) ==
  /\ calls' # calls
  /\ (pc'[t] # pc[t] \/ own'[t] # own[t] \/ bl'[t] # bl[t])

\* Thread t returns from a refused allocate or deallocate in this step.
BaseRefusedReturns(t) ==
  /\ pc[t] # "idle"
  /\ pc'[t] = "idle"
  /\ bl[t].op \in {"allocate", "deallocate"}
  /\ ~bl[t].result

\* allocate (0) on an ACTIVE strategy returns NULL and asks for ERROR; when a
\* refused call returns the status is ERROR.
C23_RefusedMovesToError ==
  \A t \in BaseThreads :
    /\ ( /\ BaseCalls(t)
         /\ bl'[t].op = "allocate"
         /\ bl'[t].size = 0
         /\ current_status = STRATEGY_STATE_ACTIVE )
       => ( /\ bl'[t].rptr = NULL
            /\ pc'[t] = "ts_load"
            /\ tl'[t].new_status = STRATEGY_STATE_ERROR
            /\ heap' = heap )
    /\ BaseRefusedReturns(t) => current_status' = STRATEGY_STATE_ERROR

\* With the status ERROR every allocate and deallocate is refused.
C23_ErrorRefusesAll ==
  \A t \in BaseThreads :
    ( /\ BaseCalls(t)
      /\ bl'[t].op \in {"allocate", "deallocate"}
      /\ current_status = STRATEGY_STATE_ERROR )
    => ( /\ ~bl'[t].result
         /\ bl'[t].rptr = NULL
         /\ heap' = heap
         /\ own' = own )

\* initialize_strategy on the cleaned-up struct returns true with the status
\* ACTIVE, and a valid allocate on an ACTIVE strategy is not refused.
C23_FreshStrategyWorks ==
  \A t \in BaseThreads :
    /\ (pc[t] = "is_done" /\ pc'[t] = "idle")
       => (bl'[t].result /\ current_status' = STRATEGY_STATE_ACTIVE)
    /\ ( /\ BaseCalls(t)
         /\ bl'[t].op = "allocate"
         /\ bl'[t].size > 0
         /\ current_status = STRATEGY_STATE_ACTIVE )
       => bl'[t].result

\* C23: the strategy of initialize_strategy answers allocate (0) with NULL and
\* moves from ACTIVE to ERROR; from then on every allocate and deallocate is
\* refused; after cleanup_strategy and a fresh initialize_strategy the status
\* is ACTIVE and allocation succeeds.
C23_ErrorRecovery ==
  [][C23_RefusedMovesToError /\ C23_ErrorRefusesAll
       /\ C23_FreshStrategyWorks]_vars

C21_ValidatorsDecide ==
  [][\A t \in StatusThreads :
       bl'[t] # bl[t] =>
         LET c == bl'[t]
             active == /\ ~c.isNull
                       /\ strategy.status_tracker
                       /\ current_status = STRATEGY_STATE_ACTIVE IN
         /\ trackerVars' = trackerVars
         /\ c.op = "validate_strategy" =>
              ( c.result <=>
                  ( /\ active
                    /\ strategy.allocate /\ strategy.deallocate
                    /\ strategy.get_status /\ strategy.validate ) )
         /\ c.op = "validate_allocation" =>
              ( c.result <=>
                  (active /\ 0 < c.size /\ c.size <= SIZE_MAX \div 2) )
         /\ c.op = "validate_deallocation" =>
              ( c.result <=>
                  (active /\ c.ptr # NULL /\ c.ptr % PointerSize = 0) )
    ]_vars

\* A strategy with one slot missing was refused, and a misaligned pointer
\* too, while the status is ACTIVE.
C21_Witness ==
  /\ current_status = STRATEGY_STATE_ACTIVE
  /\ strategy = [InitializedStrategy EXCEPT !.validate = FALSE]
  /\ bl[1].op = "validate_strategy" /\ ~bl[1].isNull /\ ~bl[1].result
  /\ bl[2].op = "validate_deallocation" /\ ~bl[2].isNull
  /\ bl[2].ptr = PointerSize + 4 /\ ~bl[2].result

(***************************************************************************)
(* Properties of the pool strategy.                                        *)
(***************************************************************************)
AllHeld == UNION {held[t] : t \in PoolThreads}

\* C4: as long as the clients deallocate only what they hold, the block runs
\* of any two allocations that are outstanding at the same time are disjoint.
C4_NoBlockHandedOutTwice ==
  ~hist.foreign
    => \A a \in AllHeld, b \in AllHeld :
         a # b => Run(a.start, a.num) \cap Run(b.start, b.num) = {}

\* C5: a deallocate of a pointer that a successful allocate returned clears
\* exactly the bits the allocation set -- the same number, at the same block
\* indices -- and takes from blocks_used what the allocation added to it.
C5_PairFlipsSameBits ==
  [][\A t \in PoolThreads :
       ( /\ ~hist.foreign
         /\ pc[t] = "pd_dec"
         /\ pc'[t] = "idle"
         /\ pl[t].owned # NoAlloc )
       => ( /\ pl[t].cleared = Run(pl[t].owned.start, pl[t].owned.num)
            /\ pl[t].sub = pl[t].owned.num )
    ]_vars

\* C6: for every pointer that allocate returned and that has not been
\* deallocated, the header before it holds the length of its run and every
\* block of the run is marked used, whatever other allocate and deallocate
\* calls (of held pointers) run.
C6_HeaderMatchesRun ==
  ~hist.foreign
    => \A a \in AllHeld :
         /\ pool_memory[a.start] = a.num
         /\ \A b \in Run(a.start, a.num) : is_block_used(block_bitmap, b)

\* The pointer of thread t's deallocate call is the start of an allocation
\* that is outstanding, being handed out or being deallocated by its holder.
StartsAllocation(t) ==
  \/ pl[t].ptr \in OutstandingPtrs
  \/ \E u \in PoolThreads \ {t} :
       pl[u].owned # NoAlloc /\ pl[u].ptr = pl[t].ptr
  \/ \E u \in PoolThreads \ {t} :
       /\ pc[u] \in {"pa_scan", "mb_load", "mb_store", "pa_blocks_load",
                     "pa_blocks_add", "pa_header", "pa_scrub", "pa_done"}
       /\ pl[u].used
       /\ UserPtr(pl[u].start) = pl[t].ptr

\* C7: no step of a deallocate call on a pointer that is not the start of a
\* currently outstanding allocation (freed before, outside the arena, or
\* never returned by allocate) changes a bitmap bit, the contents of a block
\* of an outstanding allocation, or blocks_used, total_allocations or
\* failed_allocations (concurrent_ops counts the running call itself), and
\* the status stays ACTIVE.
C7_ForeignDeallocateIsNoOp ==
  [][\A t \in PoolThreads :
       ( /\ pl[t].foreign
         /\ ~StartsAllocation(t)
         /\ (pc'[t] # pc[t] \/ pl'[t] # pl[t]) )
       => ( /\ block_bitmap' = block_bitmap
            /\ \A a \in AllHeld : \A b \in Run(a.start, a.num) :
                 /\ pool_memory'[b] = pool_memory[b]
                 /\ block_data'[b] = block_data[b]
            /\ blocks_used' = blocks_used
            /\ total_allocations' = total_allocations
            /\ failed_allocations' = failed_allocations
            /\ current_status' = STRATEGY_STATE_ACTIVE )
    ]_vars

PoolAdmitted ==
  {"pa_scan", "pa_blocks_load", "pa_blocks_add", "pa_header", "pa_scrub",
   "pa_done"}

PoolEmpty == \A w \in 0 .. (BitmapWords - 1) : block_bitmap[w] = {}

\* The order of the steps of thread t: the header is written and the payload
\* scrubbed only after mark_blocks (..., true) and the addition to blocks_used,
\* and mark_blocks (..., false) starts only after the last block is scrubbed.
ClaimBeforeCommit(t) ==
  /\ (pc'[t] = "pa_header" /\ pc[t] # "pa_header")
       => pc[t] = "pa_blocks_add"
  /\ (pc'[t] = "pa_scrub" /\ pc[t] # "pa_scrub") => pc[t] = "pa_header"
  /\ (pc[t] = "pd_scrub" /\ pc'[t] # "pd_scrub")
       => pc'[t] \in {"mb_load", "pd_blocks_load"}
  /\ (pc'[t] = "mb_load" /\ pc[t] \notin {"mb_load", "mb_store"}
       /\ ~pl'[t].used)
       => pc[t] \in {"pd_scrub", "pa_blocks_load"}

\* The block thread t writes a header or scrub bytes into in its next step.
WritesBlock(t) ==
  IF pc[t] = "pa_header" THEN {pl[t].start}
  ELSE IF pc[t] \in {"pa_scrub", "pd_scrub"} THEN {pl[t].start + pl[t].k}
  ELSE {}

\* C34: pool_allocate marks the run used before it writes the header and
\* scrubs the payload, pool_deallocate scrubs the run before it marks it
\* free, and as long as the clients deallocate only what they hold no thread
\* writes a header or scrub bytes into a block of an allocation that another
\* thread holds.
C34_NoWriteIntoOthers ==
  [][\A t \in PoolThreads :
       /\ ClaimBeforeCommit(t)
       /\ (~hist.foreign /\ (pc'[t] # pc[t] \/ pl'[t] # pl[t]))
          => \A u \in PoolThreads \ {t} : \A a \in held[u] :
               WritesBlock(t) \cap Run(a.start, a.num) = {}
    ]_vars

\* The blocks whose bit is set in the bitmap.
UsedBlocks == {b \in Blocks : is_block_used(block_bitmap, b)}

\* C37: whenever no pool operation is in flight -- the clients having
\* deallocated only what they hold -- blocks_used equals the number of set
\* bits and the set bits are exactly the blocks of the outstanding
\* allocations.
C37_BitmapMatchesOutstanding ==
  ( /\ ~hist.foreign
    /\ \A t \in PoolThreads : pc[t] = "idle" )
    => /\ blocks_used = Cardinality(UsedBlocks)
       /\ UsedBlocks = UNION {Run(a.start, a.num) : a \in AllHeld}

\* C19: pool_allocate of 0, of SIZE_MAX, of a size whose addition of the
\* header overflows and of one byte more than every block less the header
\* returns NULL; on an empty pool with no other call in flight, pool_allocate
\* of exactly every block less the header is admitted, its scan (having met
\* free blocks only) finds the run and it returns the first user pointer.
C19_BoundarySizes ==
  [][\A t \in PoolThreads :
       /\ ( /\ pl'[t].result # NULL
            /\ pl'[t].result # pl[t].result )
          => ( /\ pc[t] = "pa_done"
               /\ pl[t].size \in 1 .. PoolCapacity
               /\ pl[t].size <= SIZE_MAX - POOL_METADATA_SIZE )
       /\ pc'[t] = "pa_scan" => pl'[t].size \in 1 .. PoolCapacity
       /\ ( /\ pl[t].size = PoolCapacity
            /\ pc'[t] # pc[t]
            /\ \A u \in PoolThreads \ {t} : pc[u] = "idle" )
          => ( /\ (pc[t] = "pa_admit" /\ PoolEmpty) => pc'[t] = "pa_scan"
               /\ ( /\ pc[t] = "pa_scan"
                    /\ PoolEmpty
                    /\ pl[t].consecutive = pl[t].i )
                  => pc'[t] # "pa_fail_dec"
               /\ pc[t] = "pa_blocks_load" => pc'[t] = "pa_blocks_add"
               /\ pc[t] = "pa_done" => pl'[t].result = UserPtr(0) )
    ]_vars

(***************************************************************************)
(* Properties of the DefaultStrategy.                                      *)
(***************************************************************************)
\* Thread t takes the step.
DefaultStepOf(t) == pc'[t] # pc[t] \/ dl'[t] # dl[t] \/ sl'[t] # sl[t]

\* C8: no step of a default_deallocate call on a pointer that is not tracked
\* (deallocated before, or never allocated through the strategy) changes
\* total_freed, free_count, current_bytes, active_allocation_count,
\* total_leaked_bytes or a slot, or releases backend memory; and of several
\* deallocations of one pointer only one takes effect, so free () is never
\* called on a pointer the backend does not hold.
C8_UntrackedDeallocateIsNoOp ==
  [][ /\ \A t \in DefaultThreads :
           ( /\ dl[t].foreign
             /\ dl[t].ptr \notin heap
             /\ ~released'
             /\ DefaultStepOf(t) )
           => ( /\ total_freed' = total_freed
                /\ free_count' = free_count
                /\ current_bytes' = current_bytes
                /\ active_allocation_count' = active_allocation_count
                /\ total_leaked_bytes' = total_leaked_bytes
                /\ active_allocations' = active_allocations
                /\ heap' = heap )
      /\ invalid_free' = invalid_free
    ]_vars

DefaultQuiescent == \A t \in DefaultThreads : pc[t] = "idle"

\* C9: once all calls have returned, every successful default_allocate having
\* been followed by default_deallocate of the returned pointer (no malloc
\* failure, no other deallocation, no destroy), total_allocated = total_freed
\* and the ledger shows current_bytes = 0, active_allocation_count = 0 and
\* total_leaked_bytes = 0.
C9_DefaultBalances ==
  ( /\ DefaultQuiescent
    /\ \A t \in DefaultThreads : own[t] = {}
    /\ ~hist.foreign
    /\ ~destroying
    /\ current_status = STRATEGY_STATE_ACTIVE )
  => ( /\ total_allocated = total_freed
       /\ current_bytes = 0
       /\ active_allocation_count = 0
       /\ total_leaked_bytes = 0 )

\* C10: the strategy is released only with the status ERROR and usage_count
\* 0, no default_allocate or default_deallocate is in flight at the moment of
\* the release, and a default_allocate that starts after the ERROR transition
\* allocates and records nothing.
C10_DrainThenRelease ==
  [][ /\ (released' /\ ~released)
           => ( /\ current_status = STRATEGY_STATE_ERROR
                /\ usage_count = 0
                /\ \A t \in DefaultThreads :
                     pc[t] \in {"idle", "ds_release"} )
      /\ \A t \in DefaultThreads :
           dl'[t].afterError
             => ( /\ pc'[t] \in {"da_usage_inc", "da_status", "da_usage_dec"}
                  /\ dl'[t].ptr = NULL )
    ]_vars

\* The calls of default_allocate and default_deallocate that have done their
\* fetch_add of usage_count and not yet their fetch_sub.
Outermost(t) == IF ret[t] = << >> THEN pc[t] ELSE ret[t][Len(ret[t])]
Counted ==
  {t \in DefaultThreads :
     Outermost(t) \in {"da_status", "da_total_load", "da_freed_load",
                       "da_malloc", "da_total_add", "da_peak_load",
                       "da_peak_cas", "da_usage_dec", "dd_status",
                       "dd_get_size", "dd_freed_add", "dd_free",
                       "dd_usage_dec"}}

RejectFrame ==
  <<block_bitmap, poolMetrics, total_allocated, total_freed, peak_usage,
    statsVars, trackerVars>>

Recorded(p) ==
  \E i \in SlotIds :
    active_allocations[i].valid = 1 /\ active_allocations[i].address = p

\* Backend memory that no client holds any more and no call is working on.
LeakedPtrs ==
  {p \in heap :
     \A u \in Threads :
       p \notin own[u] /\ (pc[u] = "idle" \/ dl[u].ptr # p)}

\* C28: a default_deallocate that finds the status ERROR returns without
\* releasing the pointer and without a change to total_freed or to the
\* ledger, so the allocation stays recorded; destroy_default_strategy then
\* reports a leak.
C28_DroppedDeallocateLeaks ==
  [][~released =>
       /\ \A t \in DefaultThreads :
            /\ ( /\ pc[t] = "dd_status"
                 /\ pc'[t] # pc[t]
                 /\ current_status = STRATEGY_STATE_ERROR
                 /\ ~released' )
               => ( /\ pc'[t] = "dd_usage_dec"
                    /\ heap' = heap
                    /\ total_freed' = total_freed
                    /\ statsVars' = statsVars )
            /\ ( /\ pc[t] = "dd_usage_dec"
                 /\ pc'[t] # pc[t]
                 /\ ~released' )
               => ( /\ pc'[t] = "idle"
                    /\ heap' = heap
                    /\ total_freed' = total_freed
                    /\ statsVars' = statsVars )
       /\ (released' /\ \E p \in LeakedPtrs : Recorded(p))
            => leak_reported']_vars

\* destroy_default_strategy is about to check for leaks; the deallocate of a
\* recorded allocation was dropped and no other call is under way.
C28_Witness ==
  /\ ~released
  /\ \E t \in DefaultThreads :
       /\ pc[t] = "ds_release"
       /\ \A u \in DefaultThreads \ {t} : pc[u] = "idle"
  /\ \E p \in LeakedPtrs : Recorded(p)

\* C32: when a successful default_allocate returns, peak_usage is at least
\* the outstanding total the allocation produced: the total_allocated -
\* total_freed it observed plus its size.
C32_PeakCoversAllocation ==
  [][~released' =>
       \A t \in DefaultThreads :
         ( /\ pc[t] = "da_usage_dec"
           /\ pc'[t] = "idle"
           /\ dl[t].ptr # NULL )
           => peak_usage' >= (dl[t].cur + dl[t].size) % SizeModulus
    ]_vars

\* C35: total_allocated - total_freed never exceeds SIZE_MAX / 4 and the
\* subtraction never underflows, also when several allocations are admitted
\* concurrently.
C35_OutstandingWithinCeiling ==
  /\ total_freed <= total_allocated
  /\ total_allocated - total_freed <= SIZE_MAX \div 4

\* C20: while the strategy exists, no step of default_allocate or
\* default_deallocate decreases peak_usage, and peak_usage changes only in
\* the compare-and-swap of update_peak_usage, which default_allocate runs;
\* every step of default_deallocate leaves it unchanged.
C20_PeakUsageMonotonic ==
  [][~released' =>
       /\ peak_usage' >= peak_usage
       /\ peak_usage' # peak_usage
            => \E t \in DefaultThreads :
                 pc[t] = "da_peak_cas" /\ pc'[t] = "da_usage_dec"
    ]_vars

C20_Witness ==
  /\ ~released
  /\ peak_usage = 32
  /\ total_freed = 16
  /\ \E t \in DefaultThreads : pc[t] = "da_peak_cas"

(***************************************************************************)
(* Properties of the StatusTracker.                                        *)
(***************************************************************************)
\* The transition matrix as the specification states it.
MatrixAllows(current, next) ==
  /\ current \in 0 .. 3
  /\ next \in 0 .. 3
  /\ << <<0, 1, 1, 1>>, <<0, 0, 1, 1>>, <<1, 1, 0, 1>>, <<1, 1, 1, 0>> >>
       [current + 1][next + 1] = 1

\* C1: a transition_status call that meets a (current, next) pair the matrix
\* does not mark 1 -- a self-transition, INITIALIZED or ACTIVE to INITIALIZED,
\* or a target outside the four states -- returns STRATEGY_INVALID_STATE at
\* that step and leaves current_status unchanged.
C1_FsmSoundness ==
  [][\A t \in StatusThreads :
       /\ ( /\ pc[t] = "ts_load"
            /\ pc'[t] # "ts_load"
            /\ ~MatrixAllows(current_status, tl[t].new_status) )
          => ( /\ pc'[t] = "idle"
               /\ tl'[t].result = STRATEGY_INVALID_STATE
               /\ ~tl'[t].changed
               /\ current_status' = current_status )
       /\ ( /\ TransitionStatusCall(t)
            /\ tl'[t].new_status \notin 0 .. 3 )
          => ( /\ pc'[t] = "idle"
               /\ tl'[t].result = STRATEGY_INVALID_STATE
               /\ current_status' = current_status )
    ]_vars

\* C1 witness: a call for a self-transition has been rejected on a tracker
\* that other calls had moved to ACTIVE.
C1_Witness ==
  \E t \in StatusThreads :
    /\ pc[t] = "idle"
    /\ tl[t].result = STRATEGY_INVALID_STATE
    /\ tl[t].new_status = STRATEGY_STATE_ACTIVE
    /\ current_status = STRATEGY_STATE_ACTIVE
    /\ transition_count > 0

TrackerQuiescent == \A t \in StatusThreads : pc[t] = "idle"

\* C11: every transition_status call that changes current_status increments
\* transition_count by 1, and error_count by 1 when the destination is ERROR,
\* the update never being dropped when the retries are exhausted: with all
\* calls returned and the counter below its ceiling, transition_count is the
\* number of status changes since initialize_status and error_count the
\* number of changes into ERROR.
C11_CountersMatchChanges ==
  (TrackerQuiescent /\ transition_count < UINT64_MAX)
  => ( /\ transition_count = hist.changes
       /\ error_count = hist.errors )

\* C12: transition_count and error_count never decrease and never pass
\* UINT64_MAX; once transition_count is UINT64_MAX a further transition is
\* rejected: current_status keeps its value, the counter stays, and the call
\* that returns STRATEGY_OVERFLOW has not changed current_status.
C12_SaturatingCounters ==
  [][ /\ transition_count' >= transition_count
      /\ error_count' >= error_count
      /\ transition_count' <= UINT64_MAX
      /\ error_count' <= UINT64_MAX
      /\ transition_count = UINT64_MAX
           => ( /\ current_status' = current_status
                /\ transition_count' = UINT64_MAX )
      /\ \A t \in StatusThreads :
           tl'[t].result = STRATEGY_OVERFLOW => ~tl'[t].changed
    ]_vars

\* C13: a transition_status call returns STRATEGY_ATOMIC_FAILURE only when
\* every compare-and-swap retry on current_status failed, so such a call has
\* not changed current_status.
C13_AtomicFailureMeansNoChange ==
  \A t \in StatusThreads :
    tl[t].result = STRATEGY_ATOMIC_FAILURE => ~tl[t].changed

\* C2: in every interleaving, each change of current_status goes from the
\* value held immediately before to a value the matrix allows from it.
C2_ChangesFollowMatrix ==
  [][current_status' # current_status
       => MatrixAllows(current_status, current_status')]_vars

\* C2 witness: a thread changed the status on a retry, after its first
\* compare-and-swap lost against another thread's transition.
C2_Witness ==
  \E t \in StatusThreads :
    /\ pc[t] = "tc_load"
    /\ tl[t].changed
    /\ tl[t].retry > 0

====
